---- MODULE Spec2Model ----
(***************************************************************************)
(* A model of scalar.c, the Scalar command-line interface: the retrying    *)
(* runner of git subprocesses (run_git), the reconciliation of the         *)
(* recommended configuration (set_scalar_config, set_recommended_config),  *)
(* the negotiation with gvfs-helper (supports_gvfs_protocol), clone and    *)
(* its fallback (cmd_clone), and the reconfiguration of all registered     *)
(* enlistments (cmd_reconfigure --all).                                    *)
(*                                                                         *)
(* One process runs one builtin: cmd_main dispatches from pc = "main" and  *)
(* the builtin ends at pc = "exit" (it returned `res`) or pc = "died"      *)
(* (it called die()).  Everything outside scalar.c (the git subprocesses,  *)
(* the configuration store, the file system, gvfs-helper's answers) is an  *)
(* input of the step that consults it.                                     *)
(***************************************************************************)
EXTENDS Integers, Sequences, FiniteSets, TLC

VARIABLES
    pc,               \* where the running builtin stands
    cmd,              \* the builtin cmd_main dispatched to ("" before)
    res,              \* the builtin's `res`: what it returns at pc = "exit"
    git_retries,      \* static int git_retries
    rg,               \* run_git()'s frame: argv, attempts, res, the children started
    cfg,              \* the configuration the_repository reads: key -> its values
    pushed,           \* git_config_push_parameter("core.configWriteLockTimeoutMS=150") was called
    last,             \* the last set_recommended_config() call: mode, result, writes
    scalar_repo,      \* the global configuration's scalar.repo values, in file order
    maintenance_repo, \* the global configuration's maintenance.repo values
    fsmonitor,        \* the FSMonitor daemon: "unsupported", "stopped" or "listening"
    task,             \* cmd_run's task argument and its loop index i
    clone,            \* cmd_clone's options and locals, and what its fetches did
    helper,           \* the last supports_gvfs_protocol() call: its answer and result
    enlistment,       \* the enlistment's directory: "absent", "exists", "created", "removed"
    runs,             \* n: 0 in the first builtin that is run, 1 in the second
    fleet,            \* cmd_reconfigure --all: scalar_repos, i, dir, succeeded; visited
    hist              \* this run's lookups of scalar.repo, and cmd_unregister's and cmd_delete's steps

ctl == <<pc, cmd, res>>
git == <<git_retries, rg>>
repo == <<cfg, pushed, last>>
other == <<clone, helper, enlistment>>
locals == <<task, clone, helper, enlistment>>
world == <<scalar_repo, maintenance_repo, fsmonitor>>
vars == <<pc, cmd, res, git_retries, rg, cfg, pushed, last, scalar_repo,
          maintenance_repo, fsmonitor, task, clone, helper, enlistment, runs,
          fleet, hist>>

NULL == "NULL"

\* the_repository->worktree of the enlistment a builtin works in.
Worktree == "/enlistment/src"

(***************************************************************************)
(* The configuration store (config.h): a key holds a list of values, the   *)
(* last of which is what git_config_get_string() reads.                    *)
(***************************************************************************)

\* struct scalar_config config[] of set_recommended_config(), lines 160-195
\* (without the WIN32 entry): key, value, overwrite_on_reconfigure.
Required(k, v) == [key |-> k, value |-> v, overwrite_on_reconfigure |-> TRUE]
Optional(k, v) == [key |-> k, value |-> v, overwrite_on_reconfigure |-> FALSE]
config == <<
    Required("am.keepCR", "true"),
    Required("core.FSCache", "true"),
    Required("core.multiPackIndex", "true"),
    Required("core.preloadIndex", "true"),
    Required("core.untrackedCache", "true"),
    Required("core.logAllRefUpdates", "true"),
    Required("credential.https://dev.azure.com.useHttpPath", "true"),
    Required("credential.validate", "false"),
    Required("gc.auto", "0"),
    Required("gui.GCWarning", "false"),
    Required("index.skipHash", "false"),
    Required("index.threads", "true"),
    Required("index.version", "4"),
    Required("merge.stat", "false"),
    Required("merge.renames", "true"),
    Required("pack.useBitmaps", "false"),
    Required("pack.useSparse", "true"),
    Required("receive.autoGC", "false"),
    Required("feature.manyFiles", "false"),
    Required("feature.experimental", "false"),
    Required("fetch.unpackLimit", "1"),
    Required("fetch.writeCommitGraph", "false"),
    Optional("status.aheadBehind", "false"),
    Optional("commitGraph.generationVersion", "1"),
    Optional("core.autoCRLF", "false"),
    Optional("core.safeCRLF", "false"),
    Optional("fetch.showForcedUpdates", "false"),
    Optional("core.configWriteLockTimeoutMS", "150") >>

TableKeys == {config[i].key : i \in 1..Len(config)}

\* The keys set_recommended_config() handles outside the table.
MigrationKeys == {"core.usebuiltinfsmonitor", "core.fsmonitor"}
ReconcileKeys == TableKeys \cup MigrationKeys \cup {"log.excludeDecoration"}

\* The keys cmd_clone and cmd_cache_server write with set_config().
RemoteKeys == {"remote.origin.url", "remote.origin.fetch"}
GvfsKeys ==
    {"gvfs.sharedCache", "core.useGVFSHelper", "core.gvfs", "http.version",
     "gvfs.cache-server"}
PartialKeys == {"remote.origin.promisor", "remote.origin.partialCloneFilter"}
BranchKeys == {"branch.main.remote", "branch.main.merge"}
CloneKeys == RemoteKeys \cup GvfsKeys \cup PartialKeys \cup BranchKeys

Keys == ReconcileKeys \cup CloneKeys

EmptyConfig == [k \in Keys |-> <<>>]

\* git_config_get_string(key, &value): NULL stands for its non-zero return.
git_config_get_string(c, key) ==
    IF c[key] = <<>> THEN NULL ELSE c[key][Len(c[key])]

\* What a successful git_config_set_gently(key, value) leaves; a NULL value
\* unsets the key.
git_config_set(c, key, value) ==
    [c EXCEPT ![key] = IF value = NULL THEN <<>> ELSE <<value>>]

\* What a successful git_config_set_multivar_gently(key, value,
\* CONFIG_REGEX_NONE, 0) leaves: one more value.
git_config_add(c, key, value) == [c EXCEPT ![key] = Append(@, value)]

\* What a write to the store returns: 0, a negative code (CONFIG_NO_LOCK,
\* an error()), or a positive one (CONFIG_NO_WRITE, CONFIG_NOTHING_SET).
WriteStatus == {0, -1, 4}

\* The table's first, a middle and its last required entry, and its first
\* and last optional entry: the entries the model's inputs single out.
SampleKeys ==
    {"am.keepCR", "index.version", "fetch.writeCommitGraph", "status.aheadBehind",
     "core.configWriteLockTimeoutMS"}

\* The places of set_recommended_config() whose write may fail: the
\* migration's two writes, the sampled entries of the table, the fsmonitor
\* entry, log.excludeDecoration.
WriteSites ==
    {"migrate:core.fsmonitor", "migrate:core.usebuiltinfsmonitor",
     "fsmonitor:core.fsmonitor", "log.excludeDecoration"} \cup SampleKeys

\* The store's answer to the writes at `sites`: every write succeeds (site
\* NULL), or the write at one site returns a code other than 0.
Outcomes(sites) ==
    {[site |-> NULL, code |-> 0]} \cup [site : sites, code : WriteStatus \ {0}]

WriteOutcomes == Outcomes(WriteSites)

written(fail, site) == IF fail.site = site THEN fail.code ELSE 0

\* set_scalar_config() if reconfigure alone made it write.
set_scalar_config_all(c, entry, reconfigure, status) ==
    IF reconfigure \/ git_config_get_string(c, entry.key) = NULL
    THEN [cfg |-> IF status = 0 THEN git_config_set(c, entry.key, entry.value)
                  ELSE c,
          res |-> status,
          wrote |-> TRUE]
    ELSE [cfg |-> c, res |-> 0, wrote |-> FALSE]

\* set_scalar_config() if it wrote only a key that has no value.
set_scalar_config_unset(c, entry, reconfigure, status) ==
    IF git_config_get_string(c, entry.key) = NULL
    THEN [cfg |-> IF status = 0 THEN git_config_set(c, entry.key, entry.value)
                  ELSE c,
          res |-> status,
          wrote |-> TRUE]
    ELSE [cfg |-> c, res |-> 0, wrote |-> FALSE]

\* set_scalar_config(), lines 134-150; `status` is what
\* git_config_set_gently() returns if it is called.  `wrote` tells whether
\* it was called.
set_scalar_config(c, entry, reconfigure, status) ==
    IF (reconfigure /\ entry.overwrite_on_reconfigure)
          \/ git_config_get_string(c, entry.key) = NULL
    THEN [cfg |-> IF status = 0 THEN git_config_set(c, entry.key, entry.value)
                  ELSE c,
          res |-> status,
          wrote |-> TRUE]
    ELSE [cfg |-> c, res |-> 0, wrote |-> FALSE]

\* Lines 203-214: the migration of core.usebuiltinfsmonitor.  Only a
\* negative status makes set_recommended_config() return.
migrate_usebuiltinfsmonitor(c, fail) ==
    LET value == git_config_get_string(c, "core.usebuiltinfsmonitor")
        s1 == written(fail, "migrate:core.fsmonitor")
        copy == git_config_get_string(c, "core.fsmonitor") = NULL
        c1 == IF copy /\ s1 = 0 THEN git_config_set(c, "core.fsmonitor", value)
              ELSE c
        s2 == written(fail, "migrate:core.usebuiltinfsmonitor")
        c2 == IF s2 = 0 THEN git_config_set(c1, "core.usebuiltinfsmonitor", NULL)
              ELSE c1
    IN  IF value = NULL THEN [cfg |-> c, res |-> 0]
        ELSE IF copy /\ s1 < 0 THEN [cfg |-> c, res |-> -1]
        ELSE IF s2 < 0 THEN [cfg |-> c1, res |-> -1]
        ELSE [cfg |-> c2, res |-> 0]

\* Lines 216-220: the loop over config[], from entry i on.  `wrote` are the
\* keys git_config_set_gently() was called for, `i` the entry the loop ended
\* at (Len(config) + 1 when it ran through).
RECURSIVE set_table(_, _, _, _, _)
set_table(c, i, reconfigure, fail, wrote) ==
    IF i > Len(config) THEN [cfg |-> c, res |-> 0, wrote |-> wrote, i |-> i]
    ELSE CHOOSE t \in
            {IF one.res # 0
             THEN [cfg |-> one.cfg, res |-> -1, i |-> i,
                   wrote |-> IF one.wrote THEN wrote \cup {config[i].key} ELSE wrote]
             ELSE set_table(one.cfg, i + 1, reconfigure, fail,
                            IF one.wrote THEN wrote \cup {config[i].key} ELSE wrote) :
              one \in {set_scalar_config(c, config[i], reconfigure,
                                         written(fail, config[i].key))}} : TRUE

\* Lines 222-227: struct scalar_config fsmonitor = { "core.fsmonitor", "true" }.
set_fsmonitor(c, reconfigure, support, fail) ==
    IF support
    THEN set_scalar_config(c, Optional("core.fsmonitor", "true"), reconfigure,
                           written(fail, "fsmonitor:core.fsmonitor"))
    ELSE [cfg |-> c, res |-> 0, wrote |-> FALSE]

\* Lines 233-245: log.excludeDecoration gets refs/prefetch/* when it has no value.
set_excludeDecoration(c, fail) ==
    LET status == written(fail, "log.excludeDecoration")
    IN  IF git_config_get_string(c, "log.excludeDecoration") = NULL
        THEN [cfg |-> IF status = 0
                      THEN git_config_add(c, "log.excludeDecoration", "refs/prefetch/*")
                      ELSE c,
              res |-> IF status = 0 THEN 0 ELSE -1]
        ELSE [cfg |-> c, res |-> 0]

\* set_recommended_config(reconfigure), lines 158-248: the configuration it
\* leaves and what it returns; and of the table, the keys it wrote and the
\* entry its loop ended at (0 when the loop was not reached).
set_recommended_config(c, reconfigure, support, fail) ==
    LET m == migrate_usebuiltinfsmonitor(c, fail)
        t == set_table(m.cfg, 1, reconfigure, fail, {})
        f == set_fsmonitor(t.cfg, reconfigure, support, fail)
        x == set_excludeDecoration(f.cfg, fail)
    IN  IF m.res # 0 THEN [cfg |-> m.cfg, res |-> -1, wrote |-> {}, i |-> 0]
        ELSE IF t.res # 0 THEN t
        ELSE IF f.res # 0 THEN [t EXCEPT !.cfg = f.cfg, !.res = -1]
        ELSE [t EXCEPT !.cfg = x.cfg, !.res = x.res]

\* have_fsmonitor_support() of a build that has the daemon on every platform.
have_fsmonitor_support_always == TRUE

\* have_fsmonitor_support(), lines 152-156.
have_fsmonitor_support == fsmonitor # "unsupported"

\* No set_recommended_config() call was made yet.
NoReconcile ==
    [n |-> 0, reconfigure |-> FALSE, res |-> 0, wrote |-> {}, i |-> 0,
     fail |-> NULL, before |-> EmptyConfig,
     prev |-> [n |-> 0, reconfigure |-> FALSE, res |-> 0]]

\* The record of the call that returned r: how many calls there were, its
\* mode and result, the table keys it wrote and the entry its loop ended at,
\* the site whose write failed, the configuration it found, and the mode and
\* result of the call before.
reconciled(r, reconfigure, fail) ==
    [n |-> last.n + 1, reconfigure |-> reconfigure, res |-> r.res,
     wrote |-> r.wrote, i |-> r.i, fail |-> fail.site, before |-> cfg,
     prev |-> [n |-> last.n, reconfigure |-> last.reconfigure, res |-> last.res]]

\* set_config("key=value"), lines 341-359: what git_config_set_gently()
\* returns; set_config("key") removes the key's value.
set_config(c, key, value, fail) ==
    LET status == written(fail, key)
    IN  [cfg |-> IF status = 0 THEN git_config_set(c, key, value) ELSE c,
         res |-> status]

\* set_config(...) || set_config(...) || ...: the calls up to the first one
\* that does not return 0, and that one's result.
RECURSIVE set_configs(_, _, _)
set_configs(c, settings, fail) ==
    IF settings = <<>> THEN [cfg |-> c, res |-> 0]
    ELSE LET one == set_config(c, settings[1][1], settings[1][2], fail)
         IN  IF one.res # 0 THEN one
             ELSE set_configs(one.cfg, Tail(settings), fail)

(***************************************************************************)
(* run_git(): scalar.c 86-113.                                             *)
(***************************************************************************)

\* static int git_retries = 3;
DefaultGitRetries == 3

\* What run_command() returns: the child's exit code, or -1 when the child
\* could not be started.
ExitStatus == {-1, 0, 1}

\* No run_git() call is in progress.
NoCall == [argv |-> <<>>, attempts |-> 0, res |-> 0, children |-> 0, exit |-> 0]

\* Lines 95-101: argv is collected; attempts = 0, res = 1.
run_git_begin(args) ==
    [argv |-> args, attempts |-> 0, res |-> 1, children |-> 0, exit |-> 0]

\* The loop's condition without its test of res.
run_git_looping_after_success == rg.argv # <<>> /\ rg.attempts < git_retries

\* The for loop's condition, line 102.
run_git_looping == rg.argv # <<>> /\ rg.res # 0 /\ rg.attempts < git_retries

\* run_git() has left its loop and returns rg.res, line 112.
run_git_returns == rg.argv # <<>> /\ ~run_git_looping

\* Lines 104-108 and the loop's attempts++: one run_command() of the whole
\* argv, whose exit becomes res.  `children` counts the children started and
\* `exit` is the last one's exit.
run_git_attempt(exit) ==
    [rg EXCEPT !.attempts = @ + 1,
               !.res = exit,
               !.children = @ + 1,
               !.exit = exit]

\* The git commands whose effect on the world the model follows.
ConfigGet(path) == <<"config", "--global", "--get", "--fixed-value", "scalar.repo", path>>
ConfigAdd(path) == <<"config", "--global", "--add", "--no-fixed-value", "scalar.repo", path>>
ConfigUnset(key, path) == <<"config", "--global", "--unset", "--fixed-value", key, path>>
MaintenanceStart == <<"maintenance", "start">>
MaintenanceUnregister == <<"maintenance", "unregister", "--force">>
DaemonStart == <<"fsmonitor--daemon", "start">>
DaemonStop == <<"fsmonitor--daemon", "stop">>

Count(seq, x) == Cardinality({i \in 1..Len(seq) : seq[i] = x})
Without(seq, x) == SelectSeq(seq, LAMBDA y : y # x)

\* The exits the child can end with: `git config --get` finds only a value
\* that is there, `git config --unset` removes only a value that is there once.
ExitsOf(args, path) ==
    IF args = ConfigGet(path) /\ Count(scalar_repo, path) = 0 THEN ExitStatus \ {0}
    ELSE IF args = ConfigUnset("scalar.repo", path) /\ Count(scalar_repo, path) # 1
        THEN ExitStatus \ {0}
    ELSE IF args = ConfigUnset("maintenance.repo", path) /\ path \notin maintenance_repo
        THEN ExitStatus \ {0}
    ELSE ExitStatus

\* What the child leaves in the global configuration and of the daemon when
\* it exits with 0; a child that fails leaves them as they were.
scalar_repo_after(args, path, exit) ==
    IF exit # 0 THEN scalar_repo
    ELSE IF args = ConfigAdd(path) THEN Append(scalar_repo, path)
    ELSE IF args = ConfigUnset("scalar.repo", path) THEN Without(scalar_repo, path)
    ELSE scalar_repo

maintenance_repo_after(args, path, exit) ==
    IF exit # 0 THEN maintenance_repo
    ELSE IF args = MaintenanceStart THEN maintenance_repo \cup {path}
    ELSE IF args \in {MaintenanceUnregister, ConfigUnset("maintenance.repo", path)}
        THEN maintenance_repo \ {path}
    ELSE maintenance_repo

fsmonitor_after(args, exit) ==
    IF exit # 0 THEN fsmonitor
    ELSE IF args = DaemonStart THEN "listening"
    ELSE IF args = DaemonStop THEN "stopped"
    ELSE fsmonitor

\* `git init -- <dir>` creates the enlistment.
enlistment_after(args, exit) ==
    IF exit = 0 /\ Len(args) > 2 /\ args[3] = "init" THEN "created"
    ELSE enlistment

\* What a turn of cmd_reconfigure --all's loop has done: what chdir(dir) and
\* discover_git_directory_reason() answered ("" when not called), the keys
\* remove_deleted_enlistment() asked to unset with what run_git() returned,
\* and what set_recommended_config(1) and toggle_maintenance(1) returned
\* (<<>> when not called).
NoTurn ==
    [chdir |-> "", reason |-> "", unsets |-> <<>>, config |-> <<>>,
     maintenance |-> <<>>]

\* cmd_reconfigure --all is not in its loop: scalar_repos is the list of
\* line 1047, i the loop's index, dir the record at i (line 1051), succeeded
\* and removed the results of the loop's body; started is the scalar.repo
\* values when the builtin started, turn the turn of the loop that is under
\* way and visited the records whose turn of the loop reached loop_end.
NoFleet ==
    [all |-> FALSE, scalar_repos |-> <<>>, i |-> 0, dir |-> NULL, succeeded |-> 0,
     removed |-> 0, started |-> <<>>, turn |-> NoTurn, visited |-> <<>>]

\* No scalar.repo lookup was made and no step of cmd_unregister or cmd_delete
\* was taken: `lied` is whether a lookup of add_or_remove_enlistment()
\* answered against the store, cwd_inside what dir_inside_of() answered
\* cmd_delete (line 1252), steps what the running builtin's unregister_dir()
\* and delete_enlistment() called, in order, with what each returned.
NoHist == [lied |-> FALSE, cwd_inside |-> -1, steps |-> <<>>]

\* The directory the child runs in or names: the enlistment's worktree, or
\* the record cmd_reconfigure --all is at.
cwd == IF fleet.dir = NULL THEN Worktree ELSE fleet.dir

\* One turn of run_git()'s loop: the child runs and exits.
run_command ==
    /\ run_git_looping
    /\ \E exit \in ExitsOf(rg.argv, cwd) :
          /\ rg' = run_git_attempt(exit)
          /\ scalar_repo' = scalar_repo_after(rg.argv, cwd, exit)
          /\ maintenance_repo' = maintenance_repo_after(rg.argv, cwd, exit)
          /\ fsmonitor' = fsmonitor_after(rg.argv, exit)
          /\ enlistment' = enlistment_after(rg.argv, exit)
    /\ UNCHANGED <<ctl, git_retries, repo, task, clone, helper, runs, fleet, hist>>

(***************************************************************************)
(* The builtins that are one run_git() call.                               *)
(***************************************************************************)

\* cmd_run's tasks[] from index 1, lines 1133-1136.
tasks == <<"commit-graph", "prefetch", "loose-objects", "incremental-repack">>

MaintenanceRun(i) == <<"maintenance", "run", "--task", tasks[i]>>

\* cmd_diagnose if it left git_retries as it is.
git_retries_of_diagnose_default == DefaultGitRetries

\* Lines 950-951: "Here, a failure should not repeat itself."
git_retries_of_diagnose == 1

\* cmd_diagnose, lines 950-953: git_retries = 1, then run_git("diagnose", ...).
cmd_diagnose ==
    /\ pc = "main"
    /\ pc' = "diagnose"
    /\ cmd' = "diagnose"
    /\ git_retries' = git_retries_of_diagnose
    /\ rg' = run_git_begin(<<"diagnose", "--mode=all">>)
    /\ UNCHANGED <<res, repo, world, locals, runs, fleet, hist>>

\* cmd_help, line 1282.
cmd_help ==
    /\ pc = "main"
    /\ pc' = "help"
    /\ cmd' = "help"
    /\ rg' = run_git_begin(<<"help", "scalar">>)
    /\ UNCHANGED <<res, git_retries, repo, world, locals, runs, fleet, hist>>

\* cmd_list, line 964.
cmd_list ==
    /\ pc = "main"
    /\ pc' = "list"
    /\ cmd' = "list"
    /\ rg' = run_git_begin(<<"config", "--global", "--get-all", "scalar.repo">>)
    /\ UNCHANGED <<res, git_retries, repo, world, locals, runs, fleet, hist>>

\* The return of cmd_diagnose (956), cmd_help (1282), cmd_run (1175) with
\* run_git()'s result, and of cmd_list (964-966), which maps it to -1 or 0.
\* The frame stays as it was when run_git() returned.
simple_return ==
    /\ pc \in {"diagnose", "help", "list", "run"}
    /\ run_git_returns
    /\ res' = IF pc = "list" THEN (IF rg.res < 0 THEN -1 ELSE 0) ELSE rg.res
    /\ pc' = "exit"
    /\ UNCHANGED <<cmd, git, repo, world, locals, runs, fleet, hist>>

(***************************************************************************)
(* register_dir(), lines 309-325, with add_or_remove_enlistment(1),        *)
(* toggle_maintenance(1) and start_fsmonitor_daemon().                     *)
(***************************************************************************)

\* Lines 254-255 and 271-272: the lock timeout is pushed to the children's
\* configuration when git_config_get_ulong() finds none.
push_timeout(c) ==
    pushed \/ git_config_get_string(c, "core.configWriteLockTimeoutMS") = NULL

\* The builtin returns v.
return(v) ==
    /\ pc' = "exit"
    /\ res' = v
    /\ rg' = NoCall

\* add_or_remove_enlistment(1) up to its first run_git(), lines 268-275.
register_dir ==
    /\ pc' = "register_get"
    /\ pushed' = push_timeout(cfg)
    /\ rg' = run_git_begin(ConfigGet(Worktree))
    /\ UNCHANGED <<res, cfg, last>>

\* register_dir() returns v to its caller: cmd_register (984), cmd_run with
\* "config" (1172) and cmd_clone (921) return it; cmd_run with "all"
\* (1178-1181) returns -1 or goes on to its first task.
register_returns(v) ==
    IF cmd = "run" /\ task.i = -1
    THEN IF v # 0 THEN return(-1) /\ UNCHANGED task
         ELSE /\ pc' = "run_all"
              /\ task' = [task EXCEPT !.i = 1]
              /\ rg' = run_git_begin(MaintenanceRun(1))
              /\ UNCHANGED res
    ELSE return(v) /\ UNCHANGED task

\* add_or_remove_enlistment(1) returned 0, line 311.
registered ==
    /\ pc' = "register_config"
    /\ rg' = NoCall
    /\ UNCHANGED <<res, repo, task>>

\* Line 314: the `reconfigure` argument register_dir() hands to
\* set_recommended_config().
register_reconfigure_forced == TRUE
register_reconfigure == FALSE

\* Lines 314-318: set_recommended_config(0), then toggle_maintenance(1) up
\* to its run_git().
register_configure ==
    /\ pc = "register_config"
    /\ \E fail \in WriteOutcomes :
          \E r \in {set_recommended_config(cfg, register_reconfigure,
                                          have_fsmonitor_support, fail)} :
              /\ cfg' = r.cfg
              /\ last' = reconciled(r, register_reconfigure, fail)
              /\ IF r.res # 0
                 THEN register_returns(-1) /\ UNCHANGED pushed
                 ELSE /\ pc' = "register_maintenance"
                      /\ pushed' = push_timeout(r.cfg)
                      /\ rg' = run_git_begin(MaintenanceStart)
                      /\ UNCHANGED <<res, task>>
    /\ UNCHANGED <<cmd, git_retries, world, other, runs, fleet, hist>>

\* cmd_register, lines 982-984; setup_enlistment_directory() dies where there
\* is no enlistment.
cmd_register ==
    /\ pc = "main"
    /\ enlistment \in {"exists", "created"}
    /\ cmd' = "register"
    /\ register_dir
    /\ UNCHANGED <<git_retries, world, locals, runs, fleet, hist>>

\* cmd_run: "config" is i = 0, a task is i > 0, "all" is i = -1; lines
\* 1154-1178.
cmd_run ==
    /\ pc = "main"
    /\ cmd' = "run"
    /\ \E i \in -1 .. Len(tasks) :
          /\ task' = [task EXCEPT !.i = i]
          /\ IF i > 0
             THEN /\ pc' = "run"
                  /\ rg' = run_git_begin(MaintenanceRun(i))
                  /\ UNCHANGED <<res, repo>>
             ELSE register_dir
    /\ UNCHANGED <<git_retries, world, other, runs, fleet, hist>>

\* Lines 1180-1184: a task of "all" returned.
run_all_after_task ==
    /\ pc = "run_all"
    /\ run_git_returns
    /\ IF rg.res # 0 THEN return(-1) /\ UNCHANGED task
       ELSE IF task.i = Len(tasks) THEN return(0) /\ UNCHANGED task
       ELSE /\ task' = [task EXCEPT !.i = @ + 1]
            /\ rg' = run_git_begin(MaintenanceRun(task.i + 1))
            /\ UNCHANGED <<pc, res>>
    /\ UNCHANGED <<cmd, git_retries, repo, world, other, runs, fleet, hist>>

\* Line 274: the lookup returned `found`; it lied when it found a path that is
\* not among the scalar.repo values or did not find one that is.
looked_up(found) ==
    [hist EXCEPT !.lied = @ \/ ((found = 0) # (Count(scalar_repo, Worktree) > 0))]

\* Line 281 if it were never true.
nothing_to_do_never(add, found) == FALSE

\* Line 281: (add && !res) || (!add && res).
nothing_to_do(add, found) == (add /\ found = 0) \/ (~add /\ found # 0)

\* Lines 274-286: the lookup returned; a path that is there is not added.
register_after_get ==
    /\ pc = "register_get"
    /\ run_git_returns
    /\ IF nothing_to_do(TRUE, rg.res)
       THEN registered
       ELSE /\ pc' = "register_add"
            /\ rg' = run_git_begin(ConfigAdd(Worktree))
            /\ UNCHANGED <<res, repo, task>>
    /\ hist' = looked_up(rg.res)
    /\ UNCHANGED <<cmd, git_retries, world, other, runs, fleet>>

\* Lines 284-286 and 311-312: the add returned.
register_after_add ==
    /\ pc = "register_add"
    /\ run_git_returns
    /\ IF rg.res # 0
       THEN register_returns(-1) /\ UNCHANGED repo
       ELSE registered
    /\ UNCHANGED <<cmd, git_retries, world, other, runs, fleet, hist>>

\* Lines 317-318 if a failed toggle_maintenance(1) were an error.
maintenance_failure_is_error_always(toggled) == toggled # 0

\* Lines 317-318: a failed toggle_maintenance(1) is a warning.
maintenance_failure_is_error(toggled) == FALSE

\* Lines 317-322: a failed `maintenance start` is a warning; the daemon is
\* started when it is supported and not listening (line 293).
register_after_maintenance ==
    /\ pc = "register_maintenance"
    /\ run_git_returns
    /\ IF maintenance_failure_is_error(rg.res) THEN register_returns(-1)
       ELSE IF have_fsmonitor_support /\ fsmonitor # "listening"
       THEN /\ pc' = "register_fsmonitor"
            /\ rg' = run_git_begin(DaemonStart)
            /\ UNCHANGED <<res, task>>
       ELSE register_returns(0)
    /\ UNCHANGED <<cmd, git_retries, repo, world, other, runs, fleet, hist>>

\* Lines 320-324: the daemon's start returned.
register_after_fsmonitor ==
    /\ pc = "register_fsmonitor"
    /\ run_git_returns
    /\ register_returns(IF rg.res # 0 THEN -1 ELSE 0)
    /\ UNCHANGED <<cmd, git_retries, repo, world, other, runs, fleet, hist>>

(***************************************************************************)
(* unregister_dir(), lines 327-338, cmd_unregister, lines 1187-1231,       *)
(* delete_enlistment(), lines 621-656, and cmd_delete, lines 1233-1264.    *)
(***************************************************************************)

\* What dir_inside_of(dir, base) answers at lines 812 and 1252: -1, or where
\* in dir the part below base starts.
Inside == {-1, 0, 1}

\* The enlistment's root, whose src/ is the worktree.
Enlistment == "/enlistment"

\* A call of the running builtin returned v.
step(op, v) == [hist EXCEPT !.steps = Append(@, [op |-> op, res |-> v])]

\* What the call `op` of the running builtin returned.
returned(op) ==
    LET k == CHOOSE k \in 1..Len(hist.steps) : hist.steps[k].op = op
    IN  hist.steps[k].res

called(op) == \E k \in 1..Len(hist.steps) : hist.steps[k].op = op

\* toggle_maintenance(0), lines 254-260, up to its run_git().
unregister_dir ==
    /\ pc' = "unregister_maintenance"
    /\ pushed' = push_timeout(cfg)
    /\ rg' = run_git_begin(MaintenanceUnregister)
    /\ UNCHANGED <<res, cfg, last, enlistment>>

\* Lines 331-337: what unregister_dir() returns after toggle_maintenance(0)
\* returned `toggled` and add_or_remove_enlistment(0) `removed`.
unregister_dir_res(toggled, removed) ==
    IF toggled # 0 \/ removed # 0 THEN -1 ELSE 0

\* Lines 331-334 and 268-275: toggle_maintenance(0) returned, and
\* add_or_remove_enlistment(0) runs up to its lookup.
unregister_after_maintenance ==
    /\ pc = "unregister_maintenance"
    /\ run_git_returns
    /\ hist' = step("toggle_maintenance", rg.res)
    /\ pc' = "unregister_get"
    /\ pushed' = push_timeout(cfg)
    /\ rg' = run_git_begin(ConfigGet(Worktree))
    /\ UNCHANGED <<cmd, res, git_retries, cfg, last, world, locals, runs, fleet>>

\* Line 1252: the directory is removed unless cwd is inside of it.
delete_refused_never(inside) == FALSE

\* Line 1252: dir_inside_of(cwd, enlistment.buf) >= 0.
delete_refused(inside) == inside >= 0

\* Lines 652-655: remove_dir_recursively() returns `removed`, and
\* delete_enlistment() with it.
remove_dir(h, removed) ==
    /\ hist' = [h EXCEPT !.steps = Append(@, [op |-> "remove_dir_recursively",
                                               res |-> removed])]
    /\ enlistment' = IF removed = 0 THEN "removed" ELSE enlistment
    /\ return(IF removed # 0 THEN -1 ELSE 0)

\* Lines 629-655: unregister_dir() returned v to delete_enlistment().  On
\* Windows the process changes to the enlistment's parent directory; the
\* daemon is stopped when it is supported and listening (line 303), and the
\* directory is removed.
delete_enlistment(h, v) ==
    IF v # 0 THEN /\ return(-1)
                  /\ hist' = h
                  /\ UNCHANGED enlistment
    ELSE \E WIN32 \in BOOLEAN : \E changed \in IF WIN32 THEN {0, -1} ELSE {0} :
            LET h1 == IF WIN32
                      THEN [h EXCEPT !.steps = Append(@, [op |-> "chdir",
                                                          res |-> changed])]
                      ELSE h
            IN  IF changed < 0
                THEN /\ return(-1)
                     /\ hist' = h1
                     /\ UNCHANGED enlistment
                ELSE IF have_fsmonitor_support /\ fsmonitor = "listening"
                THEN /\ pc' = "delete_fsmonitor"
                     /\ rg' = run_git_begin(DaemonStop)
                     /\ hist' = h1
                     /\ UNCHANGED <<res, enlistment>>
                ELSE \E removed \in {0, -1} : remove_dir(h1, removed)

\* unregister_dir() returns to its caller after add_or_remove_enlistment(0)
\* returned `removed`: cmd_unregister (1230) returns what it returned,
\* cmd_delete (1256) what delete_enlistment() returns.
unregister_returns(h, removed) ==
    LET v == unregister_dir_res(returned("toggle_maintenance"), removed)
        h1 == [h EXCEPT !.steps = Append(Append(@,
                   [op |-> "add_or_remove_enlistment", res |-> removed]),
                   [op |-> "unregister_dir", res |-> v])]
    IN  IF cmd = "delete" THEN delete_enlistment(h1, v)
        ELSE /\ return(v)
             /\ hist' = h1
             /\ UNCHANGED enlistment

\* Lines 274-286: the lookup returned; a path that is not there is not
\* removed.
unregister_after_get ==
    /\ pc = "unregister_get"
    /\ run_git_returns
    /\ IF nothing_to_do(FALSE, rg.res)
       THEN unregister_returns(looked_up(rg.res), 0)
       ELSE /\ pc' = "unregister_unset"
            /\ rg' = run_git_begin(ConfigUnset("scalar.repo", Worktree))
            /\ hist' = looked_up(rg.res)
            /\ UNCHANGED <<res, enlistment>>
    /\ UNCHANGED <<cmd, git_retries, repo, world, task, clone, helper, runs, fleet>>

\* Lines 284-286 and 334-337: the removal returned.
unregister_after_unset ==
    /\ pc = "unregister_unset"
    /\ run_git_returns
    /\ unregister_returns(hist, rg.res)
    /\ UNCHANGED <<cmd, git_retries, repo, world, task, clone, helper, runs, fleet>>

\* Lines 649-655: the daemon's stop returned.
delete_after_fsmonitor ==
    /\ pc = "delete_fsmonitor"
    /\ run_git_returns
    /\ IF rg.res # 0
       THEN /\ return(-1)
            /\ hist' = step("stop_fsmonitor_daemon", rg.res)
            /\ UNCHANGED enlistment
       ELSE \E removed \in {0, -1} :
               remove_dir(step("stop_fsmonitor_daemon", rg.res), removed)
    /\ UNCHANGED <<cmd, git_retries, repo, world, task, clone, helper, runs, fleet>>

\* remove_deleted_enlistment(path), lines 999-1015, is at its k-th
\* run_git() of cmd_unregister's four: scalar.repo and maintenance.repo of
\* <enlistment>/src, then of <enlistment>.
unset_deleted(k) ==
    ConfigUnset(IF k \in {1, 3} THEN "scalar.repo" ELSE "maintenance.repo",
                IF k <= 2 THEN Worktree ELSE Enlistment)

\* Lines 1003-1012: remove_deleted_enlistment() returns -1 when one of its
\* two run_git() calls returned a negative value.
remove_deleted_enlistment(first, second) ==
    IF first < 0 \/ second < 0 THEN -1 ELSE 0

\* Lines 1213-1217: res = -1; res = remove_deleted_enlistment(src) && res;
\* res = remove_deleted_enlistment(workdir) && res.
unregister_deleted_res(src, workdir) ==
    LET r1 == IF src # 0 /\ -1 # 0 THEN 1 ELSE 0
    IN  IF workdir # 0 /\ r1 # 0 THEN 1 ELSE 0

\* cmd_unregister, lines 1187-1231, with the enlistment as its argument:
\* where neither <enlistment>/src/.git nor <enlistment>/.git is a directory
\* the matching records are removed, elsewhere unregister_dir() is called.
cmd_unregister ==
    /\ pc = "main"
    /\ cmd' = "unregister"
    /\ hist' = [hist EXCEPT !.steps = <<>>]
    /\ IF enlistment \in {"exists", "created"}
       THEN unregister_dir
       ELSE /\ pc' = "unregister_deleted"
            /\ rg' = run_git_begin(unset_deleted(1))
            /\ UNCHANGED <<res, repo, enlistment>>
    /\ UNCHANGED <<git_retries, world, task, clone, helper, runs, fleet>>

\* Lines 1003-1012 and 1213-1221: an unset of remove_deleted_enlistment()
\* returned.
unregister_after_deleted ==
    /\ pc = "unregister_deleted"
    /\ run_git_returns
    /\ LET h == step("run_git", rg.res)
           k == Len(h.steps)
       IN  /\ hist' = h
           /\ IF k < 4
              THEN /\ rg' = run_git_begin(unset_deleted(k + 1))
                   /\ UNCHANGED <<pc, res>>
              ELSE return(unregister_deleted_res(
                       remove_deleted_enlistment(h.steps[1].res, h.steps[2].res),
                       remove_deleted_enlistment(h.steps[3].res, h.steps[4].res)))
    /\ UNCHANGED <<cmd, git_retries, repo, world, locals, runs, fleet>>

\* cmd_delete, lines 1233-1264.
cmd_delete ==
    /\ pc = "main"
    /\ enlistment \in {"exists", "created"}
    /\ cmd' = "delete"
    /\ \E inside \in Inside :
          /\ hist' = [hist EXCEPT !.cwd_inside = inside, !.steps = <<>>]
          /\ IF delete_refused(inside)
             THEN return(-1) /\ UNCHANGED <<repo, enlistment>>
             ELSE unregister_dir
    /\ UNCHANGED <<git_retries, world, task, clone, helper, runs, fleet>>

(***************************************************************************)
(* supports_gvfs_protocol(), lines 425-474, and cmd_cache_server.          *)
(***************************************************************************)

\* A URL is its scheme and what follows "://".
Url(url) == url[1] \o "://" \o url[2]

starts_with(url, prefix) == url[1] \o "://" = prefix

\* can_url_support_gvfs(), lines 412-417; allow_http is
\* git_env_bool("GIT_TEST_ALLOW_GVFS_VIA_HTTP", 0).
can_url_support_gvfs(url, allow_http) ==
    starts_with(url, "https://") \/ (allow_http /\ starts_with(url, "http://"))

\* The cache server gvfs-helper's answer names.
CacheServer == "https://cache.example.com"

\* What `gvfs-helper --remote <url> config` can come to: pipe_command()
\* fails (pipe # 0); or the first iterate_json() returns iterate[1], its
\* callback get_cache_server_index() having found a GlobalDefault or not
\* (found), and the second one returns iterate[2], its callback
\* get_cache_server_url() having found the Url of entry l or not (url).
NoAnswer == [pipe |-> 0, iterate |-> <<0, 0>>, found |-> FALSE, url |-> NULL]
Answers ==
    {[NoAnswer EXCEPT !.pipe = -1],
     [NoAnswer EXCEPT !.iterate = <<-1, -1>>],
     [NoAnswer EXCEPT !.found = TRUE, !.iterate = <<0, -1>>]}
        \cup [pipe : {0}, iterate : {<<0, 0>>}, found : BOOLEAN, url : {NULL, CacheServer}]

\* supports_gvfs_protocol(url, cache_server_url) if it returned 1 only with
\* a GlobalDefault found, and 0 otherwise.
supports_gvfs_protocol_default(url, list, allow_http, answer) ==
    IF ~can_url_support_gvfs(url, allow_http)
    THEN [ret |-> 0, url |-> NULL, asked |-> FALSE]
    ELSE IF answer.pipe = 0
    THEN IF list
         THEN [ret |-> IF answer.iterate[1] < 0 THEN -1 ELSE 0,
               url |-> NULL, asked |-> TRUE]
         ELSE IF answer.iterate[1] < 0 \/ answer.iterate[2] < 0 \/ ~answer.found
         THEN [ret |-> 0, url |-> NULL, asked |-> TRUE]
         ELSE [ret |-> 1, url |-> answer.url, asked |-> TRUE]
    ELSE [ret |-> IF list THEN -1 ELSE 0, url |-> NULL, asked |-> TRUE]

\* supports_gvfs_protocol(url, cache_server_url) if a helper that fails made
\* it return 0 whoever asked.
supports_gvfs_protocol_silent(url, list, allow_http, answer) ==
    IF ~can_url_support_gvfs(url, allow_http)
    THEN [ret |-> 0, url |-> NULL, asked |-> FALSE]
    ELSE IF answer.pipe = 0
    THEN IF list
         THEN [ret |-> IF answer.iterate[1] < 0 THEN -1 ELSE 0,
               url |-> NULL, asked |-> TRUE]
         ELSE IF answer.iterate[1] < 0 \/ answer.iterate[2] < 0
         THEN [ret |-> -1, url |-> NULL, asked |-> TRUE]
         ELSE [ret |-> 1, url |-> answer.url, asked |-> TRUE]
    ELSE [ret |-> 0, url |-> NULL, asked |-> TRUE]

\* supports_gvfs_protocol(url, cache_server_url), lines 425-474; `list` is
\* cache_server_url == NULL.  ret is what it returns, url what it stores in
\* *cache_server_url, asked whether it ran gvfs-helper.
supports_gvfs_protocol(url, list, allow_http, answer) ==
    IF ~can_url_support_gvfs(url, allow_http)
    THEN [ret |-> 0, url |-> NULL, asked |-> FALSE]
    ELSE IF answer.pipe = 0
    THEN IF list
         THEN [ret |-> IF answer.iterate[1] < 0 THEN -1 ELSE 0,
               url |-> NULL, asked |-> TRUE]
         ELSE IF answer.iterate[1] < 0 \/ answer.iterate[2] < 0
         THEN [ret |-> -1, url |-> NULL, asked |-> TRUE]
         ELSE [ret |-> 1, url |-> answer.url, asked |-> TRUE]
    ELSE [ret |-> IF list THEN -1 ELSE 0, url |-> NULL, asked |-> TRUE]

(***************************************************************************)
(* The callbacks of iterate_json(), lines 361-410, and the documents of    *)
(* gvfs-helper's config endpoint.  A key is the sequence of its pieces.    *)
(***************************************************************************)

\* The entries of .CacheServers the documents have at most.
MaxServers == 2

\* An entry of .CacheServers: its Url, a string, a number or none, and its
\* GlobalDefault.
CacheServerEntries ==
    [Url : {<<>>, <<"JSON_NUMBER", "7">>, <<"JSON_STRING", "https://cache.example.com">>,
            <<"JSON_STRING", "https://other.example.com">>},
     GlobalDefault : {"JSON_TRUE", "JSON_FALSE"}]
Documents == UNION {[1..n -> CacheServerEntries] : n \in 0..MaxServers}

\* The tokens iterate_json() hands to its callback for a document, in the
\* document's order: every value with its key and its type.
RECURSIVE entry_tokens(_, _)
entry_tokens(out, k) ==
    IF k > Len(out) THEN <<>>
    ELSE <<[key |-> <<".CacheServers[", ToString(k - 1), "]">>, type |-> "JSON_OBJECT",
            string_value |-> ""]>>
         \o (IF out[k].Url = <<>> THEN <<>>
             ELSE <<[key |-> <<".CacheServers[", ToString(k - 1), "].Url">>,
                     type |-> out[k].Url[1], string_value |-> out[k].Url[2]]>>)
         \o <<[key |-> <<".CacheServers[", ToString(k - 1), "].GlobalDefault">>,
               type |-> out[k].GlobalDefault, string_value |-> ""]>>
         \o entry_tokens(out, k + 1)

json_tokens(out) ==
    <<[key |-> <<>>, type |-> "JSON_OBJECT", string_value |-> ""],
      [key |-> <<".CacheServers">>, type |-> "JSON_ARRAY", string_value |-> ""]>>
        \o entry_tokens(out, 1)

\* tolower() over the pieces of the keys and of the URLs.
tolower(piece) ==
    CASE piece = ".CacheServers[" -> ".cacheservers["
      [] piece = ".CacheServers" -> ".cacheservers"
      [] piece = "].Url" -> "].url"
      [] piece = "].GlobalDefault" -> "].globaldefault"
      [] piece = "HTTPS" -> "https"
      [] piece = "Example.com/Repo" -> "example.com/repo"
      [] OTHER -> piece

\* strtol(p, &q, 10): the number p starts with; q = p when it starts with
\* none.
strtol(p) ==
    IF p # <<>> /\ Head(p) \in {ToString(n) : n \in 0..MaxServers}
    THEN [l |-> CHOOSE n \in 0..MaxServers : ToString(n) = Head(p), q |-> Tail(p)]
    ELSE [l |-> 0, q |-> p]

\* The test of lines 367-370 and 383-386, skip_iprefix(), strtol() and
\* strcasecmp(): the key is .CacheServers[<l>]<field>, whatever the case of
\* its letters.
cache_server_key(key, field) ==
    /\ key # <<>>
    /\ tolower(Head(key)) = tolower(".CacheServers[")
    /\ strtol(Tail(key)).q # Tail(key)
    /\ strtol(Tail(key)).l >= 0
    /\ Len(strtol(Tail(key)).q) = 1
    /\ tolower(strtol(Tail(key)).q[1]) = tolower(field)

\* list_cache_server_urls(), lines 361-374; data is what was printed.
list_cache_server_urls(it, data) ==
    IF it.type = "JSON_STRING" /\ cache_server_key(it.key, "].Url")
    THEN [ret |-> 0,
          data |-> Append(data, "#" \o ToString(strtol(Tail(it.key)).l) \o ": "
                                    \o it.string_value)]
    ELSE [ret |-> 0, data |-> data]

\* Lines 383-386 if the token's type were not tested.
default_token_of_any_type(it) == cache_server_key(it.key, "].GlobalDefault")

\* Lines 383-386.
default_token(it) ==
    it.type = "JSON_TRUE" /\ cache_server_key(it.key, "].GlobalDefault")

\* get_cache_server_index(), lines 377-392; data is *it->fn_data.
get_cache_server_index(it, data) ==
    IF default_token(it)
    THEN [ret |-> 1, data |-> strtol(Tail(it.key)).l]
    ELSE [ret |-> 0, data |-> data]

\* get_cache_server_url(), lines 399-410; data is it->fn_data.
get_cache_server_url(it, data) ==
    IF /\ it.type = "JSON_STRING"
       /\ Len(it.key) = Len(data.key)
       /\ \A j \in 1..Len(it.key) : tolower(data.key[j]) = tolower(it.key[j])
    THEN [ret |-> 1, data |-> [data EXCEPT !.url = it.string_value]]
    ELSE [ret |-> 0, data |-> data]

\* get_repository_id(), lines 504-513; data is *it->fn_data.
get_repository_id(it, data) ==
    IF /\ it.type = "JSON_STRING"
       /\ Len(it.key) = 1
       /\ tolower(it.key[1]) = tolower(".repository.id")
    THEN [ret |-> 1, data |-> it.string_value]
    ELSE [ret |-> 0, data |-> data]

\* it->fn(it).
fn(name, it, data) ==
    CASE name = "list_cache_server_urls" -> list_cache_server_urls(it, data)
      [] name = "get_repository_id" -> get_repository_id(it, data)
      [] name = "get_cache_server_index" -> get_cache_server_index(it, data)
      [] name = "get_cache_server_url" -> get_cache_server_url(it, data)

\* iterate_json() over the tokens from the i-th on: the callback is called
\* for one token after the other until it returns non-zero.
RECURSIVE iterate_json(_, _, _, _)
iterate_json(tokens, i, name, data) ==
    IF i > Len(tokens) THEN [ret |-> 0, data |-> data, seen |-> Len(tokens)]
    ELSE CHOOSE t \in
            {IF one.ret # 0 THEN [ret |-> one.ret, data |-> one.data, seen |-> i]
             ELSE iterate_json(tokens, i + 1, name, one.data) :
                one \in {fn(name, tokens[i], data)}} : TRUE

\* No supports_gvfs_protocol() call was made.  out is the document
\* gvfs-helper wrote, l and url are what the callbacks stored, printed what
\* list_cache_server_urls() printed, seen the tokens the last iterate_json()
\* handed to its callback.
NoHelper ==
    [asked |-> FALSE, list |-> FALSE, answer |-> NoAnswer, ret |-> 0,
     out |-> <<>>, l |-> 0, url |-> NULL, printed |-> <<>>, seen |-> 0]

\* The record of the call that returned r.
consulted(r, list, answer) ==
    [NoHelper EXCEPT !.asked = r.asked, !.list = list,
                     !.answer = IF r.asked THEN answer ELSE NoAnswer,
                     !.ret = r.ret]

\* The remotes `scalar cache-server --list` is asked about.
Urls == {<<"https", "example.com/repo">>, <<"http", "example.com/repo">>}

\* cmd_cache_server, lines 1344-1381, in an enlistment: --list with a remote
\* that remote_get() does not find ("missing"), that has no URL ("empty"),
\* or with a URL; --set; --get.
cmd_cache_server ==
    /\ pc = "main"
    /\ enlistment = "exists"
    /\ cmd' = "cache-server"
    /\ pc' = "exit"
    /\ \/ \E remote \in {"missing", "empty"} :
             /\ res' = IF remote = "missing" THEN 1 ELSE -1
             /\ UNCHANGED <<cfg, helper>>
       \/ \E url \in Urls, allow_http \in BOOLEAN, answer \in Answers :
             LET r == supports_gvfs_protocol(url, TRUE, allow_http, answer)
             IN  /\ helper' = consulted(r, TRUE, answer)
                 /\ res' = IF r.ret # 0 THEN 1 ELSE 0
                 /\ UNCHANGED cfg
       \/ \E fail \in Outcomes({"gvfs.cache-server"}) :
             LET r == set_config(cfg, "gvfs.cache-server", CacheServer, fail)
             IN  /\ cfg' = r.cfg
                 /\ res' = IF r.res # 0 THEN 1 ELSE 0
                 /\ UNCHANGED helper
       \/ /\ res' = 0
          /\ UNCHANGED <<cfg, helper>>
    /\ UNCHANGED <<git, pushed, last, world, task, clone, enlistment, runs, fleet, hist>>

(***************************************************************************)
(* cmd_clone, lines 703-930.                                               *)
(***************************************************************************)

\* The local cache root, resolved (lines 777-782): NULL when none can be
\* determined (line 784).
Roots == {NULL, <<"cache">>}

\* Line 812 if it tested `> 0`.
cache_root_in_dir_positive(inside) == inside > 0

\* Line 812: `dir_inside_of(local_cache_root, dir) >= 0`.
cache_root_in_dir(inside) == inside >= 0

(***************************************************************************)
(* remote_default_branch(), lines 570-619.  What a child process wrote is  *)
(* a sequence of lines, and a line, like every string the code cuts, is    *)
(* the sequence of the pieces the code can cut it into.                    *)
(***************************************************************************)

RECURSIVE Concat(_)
Concat(pieces) == IF pieces = <<>> THEN "" ELSE Head(pieces) \o Concat(Tail(pieces))

\* skip_prefix(str, prefix) and strip_suffix_mem(str, &len, suffix).
skip_prefix(str, prefix) == str # <<>> /\ Head(str) = prefix
strip_suffix(str, suffix) == str # <<>> /\ str[Len(str)] = suffix

\* strbuf_trim(): the white space at both ends is dropped.
RECURSIVE strbuf_trim(_)
strbuf_trim(str) ==
    IF str = <<>> THEN str
    ELSE IF Head(str) \in {" ", "\n"} THEN strbuf_trim(Tail(str))
    ELSE IF str[Len(str)] \in {" ", "\n"}
    THEN strbuf_trim(SubSeq(str, 1, Len(str) - 1))
    ELSE str

\* Lines `git ls-remote --symref <url> HEAD` can write: HEAD as a symbolic
\* ref to a branch or to something else, HEAD's object, and the symbolic ref
\* of another ref whose name ends in /HEAD.
SymrefLines ==
    {<<"ref: ", "refs/heads/", "main", "\tHEAD">>,
     <<"ref: ", "refs/tags/", "v1", "\tHEAD">>,
     <<"8a3f", "\tHEAD">>,
     <<"ref: ", "refs/heads/", "main", "\trefs/remotes/origin/HEAD">>}

\* What pipe_command() returned for `git ls-remote` and what the child
\* wrote, of at most MaxLines lines.
MaxLines == 2
LsRemotes ==
    [status : {0, -1},
     out : UNION {[1..n -> SymrefLines] : n \in 0..MaxLines}]

\* The same for `git symbolic-ref --short HEAD`.
SymbolicRefs == [status : {0, -1}, out : {<<"main", "\n">>}]

\* Lines 584-585 if the suffix were not tested.
symref_of_HEAD_unanchored(line) == skip_prefix(line, "ref: ")

\* Lines 584-585: the line is "ref: <p>\tHEAD".
symref_of_HEAD(line) == skip_prefix(line, "ref: ") /\ strip_suffix(line, "\tHEAD")

\* The loop of lines 579-602 from `line` on: the first line that is a
\* symbolic ref of HEAD ends it, with the branch or with an error.
RECURSIVE symref_loop(_)
symref_loop(lines) ==
    IF lines = <<>> THEN [returns |-> FALSE, branch |-> NULL]
    ELSE IF ~symref_of_HEAD(Head(lines)) THEN symref_loop(Tail(lines))
    ELSE LET p == SubSeq(Head(lines), 2, Len(Head(lines)) - 1)
         IN  IF skip_prefix(p, "refs/heads/")
             THEN [returns |-> TRUE, branch |-> Concat(Tail(p))]
             ELSE [returns |-> TRUE, branch |-> NULL]

\* remote_default_branch(): the branch, or NULL; warned: the warning of
\* line 604 was given and `git symbolic-ref` was run.
remote_default_branch(remote, local) ==
    LET found == IF remote.status = 0 THEN symref_loop(remote.out)
                 ELSE [returns |-> FALSE, branch |-> NULL]
    IN  IF found.returns THEN [branch |-> found.branch, warned |-> FALSE]
        ELSE IF local.status = 0
        THEN [branch |-> Concat(strbuf_trim(local.out)), warned |-> TRUE]
        ELSE [branch |-> NULL, warned |-> TRUE]

\* get_cache_key() was not called.
NoKey == [asked |-> FALSE, skip |-> FALSE, info |-> NULL, cache_key |-> NULL]

\* remote_default_branch() was not called.
NoHead == [asked |-> FALSE, remote |-> NULL, local |-> NULL, warned |-> FALSE]

\* The command line: <url>, --cache-server-url, --local-cache-path,
\* --full-clone, --branch, --single-branch; GIT_TEST_ALLOW_GVFS_VIA_HTTP; and
\* where the cache root lies (inside).
CloneOptions ==
    [url : Urls, allow_http : BOOLEAN, cache_server_url : {NULL, CacheServer},
     local_cache_root : Roots, inside : Inside, full_clone : BOOLEAN,
     branch : {NULL, "main"}, single_branch : BOOLEAN]

\* cmd_clone's locals before it starts: gvfs_protocol (negotiated: it was
\* assigned) and default_cache_server_url; and fetches, the
\* run_git("fetch", ...) calls made, fetched, what the first one returned,
\* and unset, what the removal of the partial clone's settings returned
\* (1: not tried).
NoClone ==
    [url |-> <<"", "">>, allow_http |-> FALSE, cache_server_url |-> NULL,
     local_cache_root |-> NULL, inside |-> -1, full_clone |-> FALSE,
     branch |-> NULL,
     single_branch |-> FALSE, negotiated |-> FALSE,
     gvfs_protocol |-> FALSE, default_cache_server_url |-> NULL,
     fetches |-> 0, fetched |-> 0, unset |-> 1, head |-> NoHead,
     key |-> NoKey]

GitInit == <<"-c", "init.defaultBranch=main", "init", "--", Worktree>>
SparseCheckout == <<"sparse-checkout", "init", "--cone">>
Fetch == <<"fetch", "--quiet", "--progress", "origin">>
Checkout == <<"checkout", "-f", "-t", "origin/main">>

\* Lines 742-797: the options are parsed; an enlistment that exists and a
\* cache root that cannot be determined are fatal; `git init` is started.
cmd_clone ==
    /\ pc = "main"
    /\ cmd' = "clone"
    /\ \E o \in CloneOptions :
          /\ clone' = [NoClone EXCEPT !.url = o.url, !.allow_http = o.allow_http,
                                      !.cache_server_url = o.cache_server_url,
                                      !.local_cache_root = o.local_cache_root,
                                      !.inside = o.inside,
                                      !.full_clone = o.full_clone,
                                      !.branch = o.branch,
                                      !.single_branch = o.single_branch]
          /\ IF enlistment # "absent" \/ o.local_cache_root = NULL
             THEN pc' = "died" /\ UNCHANGED rg
             ELSE pc' = "clone_init" /\ rg' = run_git_begin(GitInit)
    /\ UNCHANGED <<res, git_retries, repo, world, task, helper, enlistment, runs, fleet, hist>>

\* Lines 796-832: `git init` returned; chdir(dir); the cache root in dir is
\* fatal, after the enlistment is removed (`removed`) or not; the remote's
\* default branch (`head`) is asked for when no --branch was given.
clone_after_init ==
    /\ pc = "clone_init"
    /\ run_git_returns
    /\ IF rg.res # 0 THEN return(rg.res) /\ UNCHANGED <<clone, enlistment>>
       ELSE \E chdir \in {0, -1} :
          IF chdir < 0 THEN return(-1) /\ UNCHANGED <<clone, enlistment>>
          ELSE IF cache_root_in_dir(clone.inside)
          THEN \E removed \in BOOLEAN :
                  /\ pc' = "died"
                  /\ rg' = NoCall
                  /\ enlistment' = IF removed THEN "removed" ELSE enlistment
                  /\ UNCHANGED <<res, clone>>
          ELSE \E remote \in LsRemotes : \E local \in SymbolicRefs :
                  LET head == remote_default_branch(remote, local).branch
                      branch == IF clone.branch # NULL THEN clone.branch ELSE head
                  IN  IF branch = NULL
                      THEN return(-1) /\ UNCHANGED <<clone, enlistment>>
                      ELSE /\ pc' = "clone_remote"
                           /\ rg' = NoCall
                           /\ clone' = [clone EXCEPT !.branch = branch]
                           /\ UNCHANGED <<res, enlistment>>
    /\ UNCHANGED <<cmd, git_retries, repo, world, task, helper, runs, fleet, hist>>

\* Lines 834-846: remote.origin.url, remote.origin.fetch and
\* credential.https://dev.azure.com.useHttpPath.
clone_remote ==
    /\ pc = "clone_remote"
    /\ \E fail \in Outcomes(RemoteKeys \cup {"credential.https://dev.azure.com.useHttpPath"}) :
          LET refs == IF clone.single_branch THEN clone.branch ELSE "*"
              r == set_configs(cfg,
                     <<<<"remote.origin.url", Url(clone.url)>>,
                       <<"remote.origin.fetch",
                         "+refs/heads/" \o refs \o ":refs/remotes/origin/" \o refs>>,
                       <<"credential.https://dev.azure.com.useHttpPath", "true">>>>,
                     fail)
          IN  /\ cfg' = r.cfg
              /\ IF r.res # 0 THEN return(-1)
                 ELSE pc' = "clone_negotiate" /\ UNCHANGED <<res, rg>>
    /\ UNCHANGED <<cmd, git_retries, pushed, last, world, locals, runs, fleet, hist>>

\* Lines 848-849: gvfs_protocol = cache_server_url ||
\* supports_gvfs_protocol(url, &default_cache_server_url).
clone_negotiate ==
    /\ pc = "clone_negotiate"
    /\ pc' = "clone_transport"
    /\ IF clone.cache_server_url # NULL
       THEN /\ clone' = [clone EXCEPT !.negotiated = TRUE, !.gvfs_protocol = TRUE]
            /\ UNCHANGED helper
       ELSE \E answer \in Answers :
               LET r == supports_gvfs_protocol(clone.url, FALSE, clone.allow_http, answer)
               IN  /\ clone' = [clone EXCEPT !.negotiated = TRUE,
                                             !.gvfs_protocol = (r.ret # 0),
                                             !.default_cache_server_url = r.url]
                   /\ helper' = consulted(r, FALSE, answer)
    /\ UNCHANGED <<cmd, res, git, repo, world, task, enlistment, runs, fleet, hist>>

\* A path as a string.
RECURSIVE Path(_)
Path(p) == IF p = <<>> THEN "" ELSE "/" \o Head(p) \o Path(Tail(p))

\* What `gvfs-helper --remote <url> endpoint vsts/info` can come to:
\* pipe_command() fails (pipe # 0), iterate_json() fails (parse < 0), and
\* the .repository.id of the document: none, a number or a string.
VstsInfos ==
    [pipe : {0, -1}, parse : {0, -1},
     id : {<<>>, <<"JSON_NUMBER", "1">>, <<"JSON_STRING", "1">>}]

\* The tokens iterate_json() hands to its callback for that document.
vsts_tokens(id) ==
    <<[key |-> <<>>, type |-> "JSON_OBJECT", string_value |-> ""],
      [key |-> <<".repository">>, type |-> "JSON_OBJECT", string_value |-> ""]>>
        \o (IF id = <<>> THEN <<>>
            ELSE <<[key |-> <<".repository.id">>, type |-> id[1],
                    string_value |-> id[2]]>>)

\* Line 552 if the URL were hashed as it is.
strbuf_tolower_never(url) == url

\* strbuf_tolower(), line 552.
strbuf_tolower(url) == [j \in 1..Len(url) |-> tolower(url[j])]

\* Lines 554-565: the hexadecimal SHA-1 of the bytes, one name for each
\* sequence of bytes.
hash_to_hex(url) == "sha1(" \o Url(url) \o ")"

\* get_cache_key(), lines 516-568: "id_" and the repository's id when
\* gvfs-helper was asked and gave one, "url_" and the hash of the URL in
\* lower case otherwise; skip is SCALAR_TEST_SKIP_VSTS_INFO.
get_cache_key(url, allow_http, skip, info) ==
    LET id == IF /\ ~skip
                 /\ can_url_support_gvfs(url, allow_http)
                 /\ info.pipe = 0
                 /\ info.parse >= 0
              THEN iterate_json(vsts_tokens(info.id), 1, "get_repository_id", NULL).data
              ELSE NULL
    IN  IF id # NULL THEN "id_" \o id
        ELSE "url_" \o hash_to_hex(strbuf_tolower(url))

\* The settings of the two transports, lines 856-863 and 871-873.
GvfsSettings(cache_server_url) ==
    <<<<"core.useGVFSHelper", "true">>, <<"core.gvfs", "150">>,
      <<"http.version", "HTTP/1.1">>>>
        \o IF cache_server_url # NULL
           THEN <<<<"gvfs.cache-server", cache_server_url>>>>
           ELSE <<>>

PartialSettings ==
    <<<<"core.useGVFSHelper", "false">>, <<"remote.origin.promisor", "true">>,
      <<"remote.origin.partialCloneFilter", "blob:none">>>>

\* Lines 851-878: init_shared_object_cache() (lines 667-701; scld is what
\* safe_create_leading_directories() returns) and the GVFS settings, or the
\* partial clone's settings.
clone_configure(c, fail, id, scld) ==
    IF clone.gvfs_protocol
    THEN LET shared == set_config(c, "gvfs.sharedCache",
                           Path(clone.local_cache_root) \o "/"
                               \o get_cache_key(clone.url, clone.allow_http, FALSE, id),
                           fail)
             cache_server_url ==
                 IF clone.cache_server_url # NULL THEN clone.cache_server_url
                 ELSE clone.default_cache_server_url
             gvfs == set_configs(shared.cfg, GvfsSettings(cache_server_url), fail)
         IN  IF shared.res # 0 THEN [cfg |-> c, res |-> -1]
             ELSE IF scld # 0 THEN [cfg |-> shared.cfg, res |-> -1]
             ELSE [cfg |-> gvfs.cfg, res |-> IF gvfs.res # 0 THEN -1 ELSE 0]
    ELSE LET partial == set_configs(c, PartialSettings, fail)
         IN  [cfg |-> partial.cfg, res |-> IF partial.res # 0 THEN -1 ELSE 0]

\* Lines 851-882: the transport is configured, and `git sparse-checkout
\* init --cone` is started unless --full-clone was given.
clone_transport ==
    /\ pc = "clone_transport"
    /\ \E fail \in Outcomes(IF clone.gvfs_protocol THEN GvfsKeys
                            ELSE PartialKeys \cup {"core.useGVFSHelper"}),
          id \in {i \in VstsInfos : i.pipe = 0 /\ i.parse = 0 /\ i.id # <<"JSON_NUMBER", "1">>},
          scld \in {0, -1} :
          LET r == clone_configure(cfg, fail, id, scld)
          IN  /\ cfg' = r.cfg
              /\ IF r.res # 0 THEN return(r.res)
                 ELSE IF clone.full_clone
                 THEN pc' = "clone_baseline" /\ UNCHANGED <<res, rg>>
                 ELSE /\ pc' = "clone_sparse"
                      /\ rg' = run_git_begin(SparseCheckout)
                      /\ UNCHANGED res
    /\ UNCHANGED <<cmd, git_retries, pushed, last, world, locals, runs, fleet, hist>>

\* Lines 880-882: `git sparse-checkout init --cone` returned.
clone_after_sparse ==
    /\ pc = "clone_sparse"
    /\ run_git_returns
    /\ IF rg.res # 0 THEN return(rg.res)
       ELSE pc' = "clone_baseline" /\ rg' = NoCall /\ UNCHANGED res
    /\ UNCHANGED <<cmd, git_retries, repo, world, locals, runs, fleet, hist>>

\* Lines 884-889: set_recommended_config(0), whose failure is returned at
\* once; then the fetch is started.
clone_baseline ==
    /\ pc = "clone_baseline"
    /\ \E fail \in WriteOutcomes :
          \E r \in {set_recommended_config(cfg, FALSE, have_fsmonitor_support, fail)} :
              /\ cfg' = r.cfg
              /\ last' = reconciled(r, FALSE, fail)
              /\ IF r.res # 0 THEN return(-1) /\ UNCHANGED clone
                 ELSE /\ pc' = "clone_fetch"
                      /\ rg' = run_git_begin(Fetch)
                      /\ clone' = [clone EXCEPT !.fetches = 1]
                      /\ UNCHANGED res
    /\ UNCHANGED <<cmd, git_retries, pushed, world, task, helper, enlistment, runs, fleet, hist>>

\* Line 890: a fetch that fails is fatal if the fallback would happen
\* whatever the transport.
fetch_failure_is_fatal_never == FALSE

\* Line 890: a fetch that fails is fatal with the GVFS protocol.
fetch_failure_is_fatal == clone.gvfs_protocol

\* Lines 887-907: the fetch returned.  A failure is fatal with the GVFS
\* protocol; otherwise remote.origin.promisor and
\* remote.origin.partialCloneFilter are removed and the fetch is started
\* once more.
clone_after_fetch ==
    /\ pc = "clone_fetch"
    /\ run_git_returns
    /\ IF rg.res = 0
       THEN /\ pc' = "clone_branch"
            /\ rg' = NoCall
            /\ UNCHANGED <<res, cfg, clone>>
       ELSE IF fetch_failure_is_fatal
       THEN /\ return(-1)
            /\ clone' = [clone EXCEPT !.fetched = rg.res]
            /\ UNCHANGED cfg
       ELSE \E fail \in Outcomes(PartialKeys) :
               LET r == set_configs(cfg,
                          <<<<"remote.origin.promisor", NULL>>,
                            <<"remote.origin.partialCloneFilter", NULL>>>>, fail)
               IN  /\ cfg' = r.cfg
                   /\ IF r.res # 0
                      THEN /\ return(-1)
                           /\ clone' = [clone EXCEPT !.fetched = rg.res,
                                                     !.unset = r.res]
                      ELSE /\ pc' = "clone_fetch2"
                           /\ rg' = run_git_begin(Fetch)
                           /\ clone' = [clone EXCEPT !.fetched = rg.res,
                                                     !.unset = 0,
                                                     !.fetches = 2]
                           /\ UNCHANGED res
    /\ UNCHANGED <<cmd, git_retries, pushed, last, world, task, helper, enlistment, runs, fleet, hist>>

\* Lines 903-906: the second fetch returned.
clone_after_fetch2 ==
    /\ pc = "clone_fetch2"
    /\ run_git_returns
    /\ IF rg.res # 0 THEN return(rg.res)
       ELSE pc' = "clone_branch" /\ rg' = NoCall /\ UNCHANGED res
    /\ UNCHANGED <<cmd, git_retries, repo, world, locals, runs, fleet, hist>>

\* Lines 909-919: branch.<branch>.remote and branch.<branch>.merge, whose
\* failure is returned as it is; then the checkout is started.
clone_branch ==
    /\ pc = "clone_branch"
    /\ \E fail \in Outcomes(BranchKeys) :
          LET r == set_configs(cfg,
                     <<<<"branch." \o clone.branch \o ".remote", "origin">>,
                       <<"branch." \o clone.branch \o ".merge",
                         "refs/heads/" \o clone.branch>>>>, fail)
          IN  /\ cfg' = r.cfg
              /\ IF r.res # 0 THEN return(r.res)
                 ELSE /\ pc' = "clone_checkout"
                      /\ rg' = run_git_begin(Checkout)
                      /\ UNCHANGED res
    /\ UNCHANGED <<cmd, git_retries, pushed, last, world, locals, runs, fleet, hist>>

\* Lines 918-919 if register_dir() were called whatever the checkout returned.
checkout_failure_is_fatal_never(v) == FALSE

\* Lines 918-919: if (res) goto cleanup.
checkout_failure_is_fatal(v) == v # 0

\* Lines 917-921: the checkout returned; register_dir().
clone_after_checkout ==
    /\ pc = "clone_checkout"
    /\ run_git_returns
    /\ IF checkout_failure_is_fatal(rg.res) THEN return(rg.res) /\ UNCHANGED repo
       ELSE register_dir
    /\ UNCHANGED <<cmd, git_retries, world, locals, runs, fleet, hist>>

\* A process that has just started, in an enlistment nobody configured.
Fresh ==
    /\ pc = "main"
    /\ cmd = ""
    /\ res = 0
    /\ git_retries = DefaultGitRetries
    /\ rg = NoCall
    /\ cfg = EmptyConfig
    /\ pushed = FALSE
    /\ last = NoReconcile
    /\ task = [i |-> 0]
    /\ clone = NoClone
    /\ helper = NoHelper
    /\ runs = [n |-> 0]
    /\ hist = NoHist
    /\ fleet = NoFleet

InitRunGit ==
    /\ Fresh
    /\ scalar_repo = <<>>
    /\ maintenance_repo = {}
    /\ fsmonitor = "unsupported"
    /\ enlistment = "exists"

NextRunGit ==
    \/ cmd_diagnose
    \/ cmd_help
    \/ cmd_list
    \/ cmd_run
    \/ register_after_get
    \/ register_after_add
    \/ register_configure
    \/ register_after_maintenance
    \/ run_all_after_task
    \/ run_command
    \/ simple_return

SpecRunGit == InitRunGit /\ [][NextRunGit]_vars

\* run_command() blocks until the child it started has exited: a child that
\* is running exits.
FairRunGit == SpecRunGit /\ WF_vars(run_command)

(***************************************************************************)
(* scalar reconfigure without --all, and the enlistment's owner: `git      *)
(* config` before the first builtin, and one builtin after another.        *)
(***************************************************************************)

\* cmd_reconfigure without --all, lines 1037-1041.
cmd_reconfigure ==
    /\ pc = "main"
    /\ cmd' = "reconfigure"
    /\ \E fail \in WriteOutcomes :
          \E r \in {set_recommended_config(cfg, TRUE, have_fsmonitor_support, fail)} :
              /\ cfg' = r.cfg
              /\ last' = reconciled(r, TRUE, fail)
              /\ return(r.res)
    /\ UNCHANGED <<git_retries, pushed, world, locals, runs, fleet, hist>>

\* How many values the user has configured before the first builtin runs.
MaxPreset == 2

Other(v) ==
    IF v = "true" THEN "false" ELSE IF v = "false" THEN "true" ELSE v \o "0"

\* The keys the user sets: a required and an optional entry of the table,
\* and the keys outside the table.
UserKeys ==
    {"am.keepCR", "status.aheadBehind"} \cup MigrationKeys \cup {"log.excludeDecoration"}

\* The values a configuration holds.
Values(c) == UNION {{<<key, i>> : i \in 1..Len(c[key])} : key \in Keys}

\* The values the user gives a key: the recommended one and another one.
UserValues(key) ==
    IF key \in MigrationKeys THEN {"true", "false"}
    ELSE IF key = "log.excludeDecoration" THEN {"refs/prefetch/*", "refs/heads/*"}
    ELSE LET v == (CHOOSE i \in 1..Len(config) : config[i].key = key)
         IN  {config[v].value, Other(config[v].value)}

\* `git config <key> <value>`, and `git config --add` for the multi-valued key.
user_config ==
    /\ pc = "main"
    /\ runs.n = 0
    /\ Cardinality(Values(cfg)) < MaxPreset
    /\ \E key \in UserKeys : \E value \in UserValues(key) :
          cfg' = IF key = "log.excludeDecoration"
                 THEN git_config_add(cfg, key, value)
                 ELSE git_config_set(cfg, key, value)
    /\ UNCHANGED <<ctl, git, pushed, last, world, locals, runs, fleet, hist>>

\* The first builtin succeeded and a second one is started: a new process.
next_command ==
    /\ pc = "exit"
    /\ res = 0
    /\ runs.n = 0
    /\ pc' = "main"
    /\ cmd' = ""
    /\ git_retries' = DefaultGitRetries
    /\ rg' = NoCall
    /\ pushed' = FALSE
    /\ task' = [i |-> 0]
    /\ runs' = [runs EXCEPT !.n = 1]
    /\ UNCHANGED <<res, cfg, last, world, other, fleet, hist>>

InitConfig ==
    /\ Fresh
    /\ scalar_repo = <<>>
    /\ maintenance_repo = {}
    /\ fsmonitor \in {"unsupported", "stopped"}
    /\ enlistment = "exists"

NextConfig ==
    \/ user_config
    \/ cmd_register
    \/ register_after_get
    \/ register_after_add
    \/ register_configure
    \/ register_after_maintenance
    \/ register_after_fsmonitor
    \/ cmd_reconfigure
    \/ run_command
    \/ next_command

SpecConfig == InitConfig /\ [][NextConfig]_vars

(***************************************************************************)
(* scalar register, scalar unregister and scalar delete, one after         *)
(* another in one enlistment.                                              *)
(***************************************************************************)

\* How many builtins are run at most.
MaxCommands == 2

\* A builtin returned and the next one is started: a new process.
another_command ==
    /\ pc = "exit"
    /\ runs.n + 1 < MaxCommands
    /\ pc' = "main"
    /\ cmd' = ""
    /\ res' = 0
    /\ git_retries' = DefaultGitRetries
    /\ rg' = NoCall
    /\ pushed' = FALSE
    /\ runs' = [runs EXCEPT !.n = @ + 1]
    /\ UNCHANGED <<cfg, last, world, locals, fleet, hist>>

InitEnlistment ==
    /\ Fresh
    /\ scalar_repo \in {<<>>, <<Worktree>>}
    /\ maintenance_repo \in {{}, {Worktree}}
    /\ fsmonitor \in {"unsupported", "stopped", "listening"}
    /\ enlistment \in {"exists", "removed"}

NextEnlistment ==
    \/ cmd_register
    \/ register_after_get
    \/ register_after_add
    \/ register_configure
    \/ register_after_maintenance
    \/ register_after_fsmonitor
    \/ cmd_unregister
    \/ unregister_after_maintenance
    \/ unregister_after_get
    \/ unregister_after_unset
    \/ unregister_after_deleted
    \/ cmd_delete
    \/ delete_after_fsmonitor
    \/ run_command
    \/ another_command

SpecEnlistment == InitEnlistment /\ [][NextEnlistment]_vars

(***************************************************************************)
(* scalar reconfigure --all: cmd_reconfigure, lines 1043-1121, and         *)
(* remove_deleted_enlistment().                                            *)
(***************************************************************************)

\* How many scalar.repo values the global configuration holds at most.
MaxRecords == 3

\* The k-th directory that was registered.
Dir(k) == "/" \o ToString(k) \o "/src"

\* The directories that are registered.
Dirs == {Dir(k) : k \in 1..MaxRecords}

\* The lists of at most n registered directories, in file order: the first
\* directories in the order of their registration, and a directory that is
\* there twice.
Records(n) ==
    {[k \in 1..m |-> Dir(k)] : m \in 0..n} \cup {<<Dir(1), Dir(1)>>}

\* chdir(dir), line 1056: 0, or -1 with errno ENOENT or another errno.
Chdir == {"ok", "ENOENT", "EACCES"}

\* What discover_git_directory_reason() answers, lines 1077-1094.
Discovery ==
    {"GIT_DIR_DISCOVERED", "GIT_DIR_INVALID_OWNERSHIP", "GIT_DIR_INVALID_GITFILE",
     "GIT_DIR_INVALID_FORMAT", "GIT_DIR_HIT_CEILING"}

\* The configurations the registered enlistments hold, and the writes that
\* fail in them.
FleetConfigs == {git_config_set(EmptyConfig, "am.keepCR", "false")}
FleetOutcomes == Outcomes({"am.keepCR"})

\* The loop's condition if a record that failed ended the loop.
scalar_repos_looping_while_ok == fleet.i < Len(fleet.scalar_repos) /\ res = 0

\* The for loop's condition, line 1049: `i < scalar_repos.nr`.
scalar_repos_looping == fleet.i < Len(fleet.scalar_repos)

\* Lines 1043-1047: git_config(get_scalar_repos, &scalar_repos) appends
\* every scalar.repo value to the list.
cmd_reconfigure_all ==
    /\ pc = "main"
    /\ pc' = "reconfigure_loop"
    /\ cmd' = "reconfigure"
    /\ res' = 0
    /\ fleet' = [NoFleet EXCEPT !.all = TRUE, !.scalar_repos = scalar_repo,
                                !.started = scalar_repo]
    /\ UNCHANGED <<git, repo, world, locals, runs, hist>>

\* goto loop_end.
loop_end ==
    /\ pc' = "reconfigure_loop_end"
    /\ rg' = NoCall

\* Lines 1049-1100: the loop's test, and a turn of the loop up to
\* set_recommended_config(): chdir(dir) fails (errno is not ENOENT: loop_end;
\* ENOENT: remove_deleted_enlistment() up to its first run_git()), or the
\* repository is looked for in dir, and the_repository is the one found.
\* After the last record cmd_reconfigure returns res.
reconfigure_loop ==
    /\ pc = "reconfigure_loop"
    /\ IF ~scalar_repos_looping
       THEN /\ pc' = "exit"
            /\ rg' = NoCall
            /\ UNCHANGED <<cfg, fleet>>
       ELSE LET d == fleet.scalar_repos[fleet.i + 1]
            IN  \E chdir \in Chdir :
                LET f == [fleet EXCEPT !.succeeded = 0, !.removed = 0, !.dir = d,
                                       !.turn = [NoTurn EXCEPT !.chdir = chdir]]
                IN
                   CASE chdir = "EACCES" ->
                            /\ loop_end
                            /\ fleet' = f
                            /\ UNCHANGED cfg
                     [] chdir = "ENOENT" ->
                            /\ pc' = "reconfigure_unset_scalar"
                            /\ rg' = run_git_begin(ConfigUnset("scalar.repo", d))
                            /\ fleet' = f
                            /\ UNCHANGED cfg
                     [] chdir = "ok" ->
                            \E reason \in Discovery :
                               IF reason \in {"GIT_DIR_INVALID_OWNERSHIP",
                                              "GIT_DIR_INVALID_GITFILE",
                                              "GIT_DIR_INVALID_FORMAT"}
                               THEN /\ loop_end
                                    /\ fleet' = [f EXCEPT !.turn.reason = reason]
                                    /\ UNCHANGED cfg
                               ELSE /\ pc' = "reconfigure_config"
                                    /\ rg' = NoCall
                                    /\ fleet' = [f EXCEPT
                                          !.turn.reason = reason,
                                          !.succeeded =
                                             IF reason = "GIT_DIR_DISCOVERED" THEN 1 ELSE 0]
                                    /\ cfg' \in FleetConfigs
    /\ UNCHANGED <<cmd, res, git_retries, pushed, last, world, locals, runs, hist>>

\* Lines 1065-1072 if a stale record's removal never counted as a success.
succeeded_after_removal_never(removed) == 0

\* Lines 1065-1072: `succeeded` after remove_deleted_enlistment() returned
\* `removed`.
succeeded_after_removal(removed) == IF removed # 0 THEN 0 ELSE 1

\* Lines 1004-1009: the removal of the scalar.repo value returned.
reconfigure_after_unset_scalar ==
    /\ pc = "reconfigure_unset_scalar"
    /\ run_git_returns
    /\ pc' = "reconfigure_unset_maintenance"
    /\ fleet' = [fleet EXCEPT
                    !.removed = IF rg.res < 0 THEN -1 ELSE 0,
                    !.turn.unsets = Append(@, [key |-> "scalar.repo", res |-> rg.res])]
    /\ rg' = run_git_begin(ConfigUnset("maintenance.repo", fleet.dir))
    /\ UNCHANGED <<cmd, res, git_retries, repo, world, locals, runs, hist>>

\* Lines 1009-1014 and 1065-1074: the removal of the maintenance.repo value
\* returned, and remove_deleted_enlistment() with it.
reconfigure_after_unset_maintenance ==
    /\ pc = "reconfigure_unset_maintenance"
    /\ run_git_returns
    /\ LET removed == IF rg.res < 0 THEN -1 ELSE fleet.removed
       IN  fleet' = [fleet EXCEPT
                       !.removed = removed,
                       !.succeeded = succeeded_after_removal(removed),
                       !.turn.unsets =
                          Append(@, [key |-> "maintenance.repo", res |-> rg.res])]
    /\ loop_end
    /\ UNCHANGED <<cmd, res, git_retries, repo, world, locals, runs, hist>>

\* Lines 1102-1105: set_recommended_config(1), then toggle_maintenance(1) up
\* to its run_git().
reconfigure_configure ==
    /\ pc = "reconfigure_config"
    /\ \E fail \in FleetOutcomes :
          \E r \in {set_recommended_config(cfg, TRUE, have_fsmonitor_support, fail)} :
              /\ cfg' = r.cfg
              /\ last' = reconciled(r, TRUE, fail)
              /\ fleet' = [fleet EXCEPT
                              !.succeeded = IF r.res >= 0 THEN 1 ELSE @,
                              !.turn.config = Append(@, r.res)]
              /\ pushed' = push_timeout(r.cfg)
    /\ pc' = "reconfigure_maintenance"
    /\ rg' = run_git_begin(MaintenanceStart)
    /\ UNCHANGED <<cmd, res, git_retries, world, locals, runs, hist>>

\* Lines 1105-1106: `maintenance start` returned.
reconfigure_after_maintenance ==
    /\ pc = "reconfigure_maintenance"
    /\ run_git_returns
    /\ fleet' = [fleet EXCEPT
                    !.succeeded = IF rg.res >= 0 THEN 1 ELSE @,
                    !.turn.maintenance = Append(@, rg.res)]
    /\ loop_end
    /\ UNCHANGED <<cmd, res, git_retries, repo, world, locals, runs, hist>>

\* Lines 1108-1115 and the loop's i++.
reconfigure_loop_end ==
    /\ pc = "reconfigure_loop_end"
    /\ pc' = "reconfigure_loop"
    /\ res' = IF fleet.succeeded = 0 THEN -1 ELSE res
    /\ fleet' = [fleet EXCEPT
                    !.i = @ + 1,
                    !.dir = NULL,
                    !.turn = NoTurn,
                    !.visited = Append(@, [i |-> fleet.i, dir |-> fleet.dir,
                                           succeeded |-> fleet.succeeded])]
    /\ UNCHANGED <<cmd, git, repo, world, locals, runs, hist>>

InitFleet ==
    /\ Fresh
    /\ scalar_repo \in Records(MaxRecords)
    /\ maintenance_repo = Dirs
    /\ fsmonitor = "unsupported"
    /\ enlistment = "exists"

NextFleet ==
    \/ cmd_reconfigure_all
    \/ reconfigure_loop
    \/ reconfigure_after_unset_scalar
    \/ reconfigure_after_unset_maintenance
    \/ reconfigure_configure
    \/ reconfigure_after_maintenance
    \/ reconfigure_loop_end
    \/ run_command

SpecFleet == InitFleet /\ [][NextFleet]_vars

\* The process runs on while it can, and every child that is started exits.
FairFleet ==
    /\ SpecFleet
    /\ WF_vars(reconfigure_loop)
    /\ WF_vars(reconfigure_after_unset_scalar)
    /\ WF_vars(reconfigure_after_unset_maintenance)
    /\ WF_vars(reconfigure_configure)
    /\ WF_vars(reconfigure_after_maintenance)
    /\ WF_vars(reconfigure_loop_end)
    /\ WF_vars(run_command)

(***************************************************************************)
(* scalar clone and scalar cache-server.                                   *)
(***************************************************************************)

(***************************************************************************)
(* cmd_clone's call of remote_default_branch(), lines 829-832, on its own: *)
(* what the two child processes answer is drawn at the start.              *)
(***************************************************************************)

\* Lines 829-832 without --branch: remote_default_branch(url), and the
\* error when it returned NULL.
clone_default_branch ==
    /\ pc = "main"
    /\ ~clone.head.asked
    /\ cmd' = "clone"
    /\ \E r \in {remote_default_branch(clone.head.remote, clone.head.local)} :
          /\ clone' = [clone EXCEPT !.branch = r.branch,
                                    !.head.asked = TRUE,
                                    !.head.warned = r.warned]
          /\ IF r.branch = NULL THEN return(-1)
             ELSE pc' = "clone_remote" /\ rg' = NoCall /\ UNCHANGED res
    /\ UNCHANGED <<git_retries, repo, world, task, helper, enlistment, runs, fleet, hist>>

InitBranch ==
    /\ pc = "main"
    /\ cmd = ""
    /\ res = 0
    /\ git_retries = DefaultGitRetries
    /\ rg = NoCall
    /\ cfg = EmptyConfig
    /\ pushed = FALSE
    /\ last = NoReconcile
    /\ task = [i |-> 0]
    /\ \E remote \in LsRemotes : \E local \in SymbolicRefs :
          clone = [NoClone EXCEPT !.head.remote = remote, !.head.local = local]
    /\ helper = NoHelper
    /\ runs = [n |-> 0]
    /\ hist = NoHist
    /\ fleet = NoFleet
    /\ scalar_repo = <<>>
    /\ maintenance_repo = {}
    /\ fsmonitor = "stopped"
    /\ enlistment = "exists"

NextBranch == clone_default_branch

SpecBranch == InitBranch /\ [][NextBranch]_vars

(***************************************************************************)
(* supports_gvfs_protocol() with an answer of gvfs-helper that parses,     *)
(* lines 439-469, on its own: the document is drawn at the start.          *)
(***************************************************************************)

\* Lines 444-452: cache_server_url is NULL, the Urls are listed.
list_cache_servers ==
    /\ pc = "main"
    /\ cmd' = "cache-server"
    /\ \E r \in {iterate_json(json_tokens(helper.out), 1, "list_cache_server_urls", <<>>)} :
          helper' = [helper EXCEPT !.asked = TRUE, !.list = TRUE,
                                   !.printed = r.data, !.seen = r.seen]
    /\ return(0)
    /\ UNCHANGED <<git_retries, repo, world, task, clone, enlistment, runs, fleet, hist>>

\* Line 454 if the index started at the last of the entries.
l_before_iterating_last == MaxServers - 1

\* Line 454: long l = 0.
l_before_iterating == 0

\* Lines 454-468: the index of the default, then its Url.
negotiate_cache_server ==
    /\ pc = "main"
    /\ cmd' = "clone"
    /\ \E first \in {iterate_json(json_tokens(helper.out), 1, "get_cache_server_index",
                                   l_before_iterating)} :
          \E second \in {iterate_json(json_tokens(helper.out), 1, "get_cache_server_url",
                            [key |-> <<".CacheServers[", ToString(first.data), "].Url">>,
                             url |-> NULL])} :
              helper' = [helper EXCEPT !.asked = TRUE, !.ret = 1,
                                       !.l = first.data, !.seen = first.seen,
                                       !.url = second.data.url]
    /\ pc' = "clone_transport"
    /\ rg' = NoCall
    /\ UNCHANGED <<res, git_retries, repo, world, task, clone, enlistment, runs, fleet, hist>>

InitJson ==
    /\ pc = "main"
    /\ cmd = ""
    /\ res = 0
    /\ git_retries = DefaultGitRetries
    /\ rg = NoCall
    /\ cfg = EmptyConfig
    /\ pushed = FALSE
    /\ last = NoReconcile
    /\ task = [i |-> 0]
    /\ clone = NoClone
    /\ \E out \in Documents : helper = [NoHelper EXCEPT !.out = out]
    /\ runs = [n |-> 0]
    /\ hist = NoHist
    /\ fleet = NoFleet
    /\ scalar_repo = <<>>
    /\ maintenance_repo = {}
    /\ fsmonitor = "stopped"
    /\ enlistment = "exists"

NextJson == list_cache_servers \/ negotiate_cache_server

SpecJson == InitJson /\ [][NextJson]_vars

(***************************************************************************)
(* init_shared_object_cache()'s call of get_cache_key(), line 674, on its  *)
(* own: the URL, the environment and gvfs-helper's answer are drawn at the *)
(* start.                                                                  *)
(***************************************************************************)

\* The URLs of the remote, some of them differing in case only.
KeyUrls ==
    Urls \cup {<<"https", "Example.com/Repo">>, <<"HTTPS", "example.com/repo">>}

\* Lines 674-677: get_cache_key(url), and the error when it returned NULL.
clone_cache_key ==
    /\ pc = "main"
    /\ ~clone.key.asked
    /\ cmd' = "clone"
    /\ \E k \in {get_cache_key(clone.url, clone.allow_http, clone.key.skip,
                               clone.key.info)} :
          /\ clone' = [clone EXCEPT !.key.asked = TRUE, !.key.cache_key = k]
          /\ IF k = NULL THEN return(-1)
             ELSE pc' = "clone_transport" /\ rg' = NoCall /\ UNCHANGED res
    /\ UNCHANGED <<git_retries, repo, world, task, helper, enlistment, runs, fleet, hist>>

InitKey ==
    /\ pc = "main"
    /\ cmd = ""
    /\ res = 0
    /\ git_retries = DefaultGitRetries
    /\ rg = NoCall
    /\ cfg = EmptyConfig
    /\ pushed = FALSE
    /\ last = NoReconcile
    /\ task = [i |-> 0]
    /\ \E url \in KeyUrls, allow_http \in BOOLEAN, skip \in BOOLEAN, info \in VstsInfos :
          clone = [NoClone EXCEPT !.url = url, !.allow_http = allow_http,
                                  !.key.skip = skip, !.key.info = info]
    /\ helper = NoHelper
    /\ runs = [n |-> 0]
    /\ hist = NoHist
    /\ fleet = NoFleet
    /\ scalar_repo = <<>>
    /\ maintenance_repo = {}
    /\ fsmonitor = "stopped"
    /\ enlistment = "exists"

NextKey == clone_cache_key

SpecKey == InitKey /\ [][NextKey]_vars

Init ==
    /\ Fresh
    /\ scalar_repo = <<>>
    /\ maintenance_repo = {}
    /\ fsmonitor = "stopped"
    /\ enlistment \in {"absent", "exists"}

Next ==
    \/ cmd_cache_server
    \/ cmd_clone
    \/ clone_after_init
    \/ clone_remote
    \/ clone_negotiate
    \/ clone_transport
    \/ clone_after_sparse
    \/ clone_baseline
    \/ clone_after_fetch
    \/ clone_after_fetch2
    \/ clone_branch
    \/ clone_after_checkout
    \/ register_after_get
    \/ register_after_add
    \/ register_configure
    \/ register_after_maintenance
    \/ register_after_fsmonitor
    \/ run_command

Spec == Init /\ [][Next]_vars

(***************************************************************************)
(* Properties of cmd_clone and of supports_gvfs_protocol().                *)
(***************************************************************************)

\* The transport's settings are written and no fetch has failed.
transport_configured == pc \in {"clone_sparse", "clone_baseline", "clone_fetch"}

\* The GVFS protocol's settings as lines 852-863 leave them.
gvfs_settings ==
    /\ cfg["gvfs.sharedCache"] # <<>>
    /\ cfg["core.useGVFSHelper"] = <<"true">>
    /\ cfg["core.gvfs"] = <<"150">>
    /\ cfg["http.version"] = <<"HTTP/1.1">>
    /\ cfg["gvfs.cache-server"] =
          IF clone.cache_server_url # NULL THEN <<clone.cache_server_url>>
          ELSE IF clone.default_cache_server_url # NULL
          THEN <<clone.default_cache_server_url>>
          ELSE <<>>
    /\ \A key \in PartialKeys : cfg[key] = <<>>

\* The partial clone's settings as lines 871-873 leave them.
partial_settings ==
    /\ cfg["core.useGVFSHelper"] = <<"false">>
    /\ cfg["remote.origin.promisor"] = <<"true">>
    /\ cfg["remote.origin.partialCloneFilter"] = <<"blob:none">>
    /\ cfg["gvfs.sharedCache"] = <<>>

\* The first fetch of cmd_clone failed.
fetch_failed == cmd = "clone" /\ clone.fetched # 0

\* cmd_clone made at most two fetches, the second one only without the GVFS
\* protocol and after the first one failed.
one_more_fetch ==
    /\ clone.fetches <= 2
    /\ clone.fetches = 2 => ~clone.gvfs_protocol /\ clone.fetched # 0

\* With the GVFS protocol a fetch that fails ends cmd_clone with an error:
\* one fetch was made and the GVFS settings are as they were written.
gvfs_fetch_is_fatal ==
    (fetch_failed /\ clone.gvfs_protocol) =>
        /\ pc = "exit" /\ res # 0
        /\ clone.fetches = 1
        /\ clone.unset = 1
        /\ gvfs_settings

\* C1 as the specification states it: when cmd_clone configured a partial
\* clone and its fetch fails, remote.origin.promisor and
\* remote.origin.partialCloneFilter are removed and one more fetch is made,
\* a full one; with the GVFS protocol a fetch that fails ends cmd_clone
\* without a second fetch and with the transport's settings unchanged.
fallback_always_refetches ==
    /\ one_more_fetch
    /\ gvfs_fetch_is_fatal
    /\ (fetch_failed /\ ~clone.gvfs_protocol) =>
          /\ \A key \in PartialKeys : cfg[key] = <<>>
          /\ clone.fetches = 2

\* C1 as the code has it: when cmd_clone configured a partial clone and its
\* fetch fails, it tries to remove remote.origin.promisor and
\* remote.origin.partialCloneFilter; when both are removed one more fetch
\* is made, a full one; when a removal fails cmd_clone ends with an error
\* and without a second fetch.  With the GVFS protocol a fetch that fails
\* ends cmd_clone without a second fetch and with the transport's settings
\* unchanged.
fallback_refetches_once_unset ==
    /\ one_more_fetch
    /\ gvfs_fetch_is_fatal
    /\ (fetch_failed /\ ~clone.gvfs_protocol) =>
          IF clone.unset = 0
          THEN /\ \A key \in PartialKeys : cfg[key] = <<>>
               /\ clone.fetches = 2
          ELSE /\ pc = "exit" /\ res = -1
               /\ clone.fetches = 1
               /\ cfg["remote.origin.partialCloneFilter"] = <<"blob:none">>

\* The second fetch of a clone whose first, partial fetch failed three times.
refetching ==
    /\ pc = "clone_fetch2"
    /\ clone.fetches = 2
    /\ clone.fetched # 0
    /\ rg.argv = Fetch
    /\ rg.children = 1
    /\ cfg["remote.origin.promisor"] = <<>>

\* gvfs-helper answered the clone's question with a GlobalDefault.
found_default ==
    /\ helper.asked /\ ~helper.list
    /\ helper.answer.pipe = 0
    /\ helper.answer.iterate = <<0, 0>>
    /\ helper.answer.found

\* C2 as the specification states it: cmd_clone uses the GVFS protocol if
\* and only if --cache-server-url was given or gvfs-helper's answer named a
\* default cache server; it then has the shared cache and
\* core.useGVFSHelper=true, and otherwise core.useGVFSHelper=false,
\* remote.origin.promisor=true and remote.origin.partialCloneFilter=blob:none.
gvfs_protocol_iff_cache_server ==
    (cmd = "clone" /\ clone.negotiated) =>
        /\ clone.gvfs_protocol <=> (clone.cache_server_url # NULL \/ found_default)
        /\ transport_configured =>
              IF clone.gvfs_protocol THEN gvfs_settings ELSE partial_settings

\* C2 as the code has it: cmd_clone uses the GVFS protocol if and only if
\* --cache-server-url was given or the URL can support the protocol and
\* gvfs-helper's config query succeeded, whether its answer names a default
\* cache server, names none, or cannot be parsed; it then has the shared
\* cache and core.useGVFSHelper=true, and otherwise
\* core.useGVFSHelper=false, remote.origin.promisor=true and
\* remote.origin.partialCloneFilter=blob:none.
gvfs_protocol_iff_helper_answers ==
    (cmd = "clone" /\ clone.negotiated) =>
        /\ clone.gvfs_protocol
              <=> \/ clone.cache_server_url # NULL
                  \/ /\ can_url_support_gvfs(clone.url, clone.allow_http)
                     /\ helper.asked /\ helper.answer.pipe = 0
        /\ transport_configured =>
              IF clone.gvfs_protocol THEN gvfs_settings ELSE partial_settings

\* A clone with the GVFS protocol and no cache server: gvfs-helper's answer
\* had no GlobalDefault and no Url.
gvfs_without_cache_server ==
    /\ cmd = "clone"
    /\ transport_configured
    /\ clone.cache_server_url = NULL
    /\ helper.asked /\ helper.answer.pipe = 0 /\ helper.answer.iterate = <<0, 0>>
    /\ ~helper.answer.found /\ helper.answer.url = NULL
    /\ clone.gvfs_protocol
    /\ gvfs_settings

\* C3: when gvfs-helper's answer to cmd_clone cannot be parsed as JSON,
\* cmd_clone goes on without the GVFS protocol, with a partial clone: it
\* does not end there and does not use the GVFS protocol.
unparsable_answer_is_partial_clone ==
    (/\ cmd = "clone" /\ clone.negotiated
     /\ clone.cache_server_url = NULL
     /\ helper.asked /\ helper.answer.pipe = 0 /\ helper.answer.iterate[1] < 0)
        => /\ ~clone.gvfs_protocol
           /\ transport_configured => partial_settings

\* C4: when gvfs-helper's config query fails, supports_gvfs_protocol()
\* returns 0 to cmd_clone, which goes on without the GVFS protocol, and an
\* error to `scalar cache-server --list`, which fails; and `scalar
\* cache-server --list` fails too when the answer cannot be parsed.
helper_failure_is_quiet_for_clone ==
    /\ (helper.asked /\ helper.answer.pipe # 0 /\ ~helper.list) =>
          /\ cmd = "clone"
          /\ helper.ret = 0
          /\ clone.negotiated /\ ~clone.gvfs_protocol
          /\ transport_configured => partial_settings
    /\ (/\ helper.asked /\ helper.list
        /\ helper.answer.pipe # 0 \/ helper.answer.iterate[1] < 0) =>
          /\ cmd = "cache-server"
          /\ helper.ret < 0
          /\ pc = "exit" /\ res # 0

\* `scalar cache-server --list` failed because gvfs-helper did.
list_failed_with_helper ==
    /\ cmd = "cache-server"
    /\ pc = "exit"
    /\ helper.asked /\ helper.list
    /\ helper.answer.pipe # 0
    /\ res = 1

\* The cache root is dir or below it: dir_inside_of() does not answer -1.
nested ==
    /\ cmd = "clone"
    /\ clone.local_cache_root # NULL
    /\ clone.inside >= 0

\* cmd_clone ended before it configured a remote or a transport and before
\* any fetch.
ended_before_fetch ==
    /\ pc \in {"clone_init", "exit", "died"}
    /\ pc = "exit" => res # 0
    /\ clone.fetches = 0
    /\ ~clone.negotiated
    /\ \A key \in CloneKeys : cfg[key] = <<>>

\* C9 as the specification states it: with the cache root in dir, cmd_clone
\* fails before any fetch and before it configures a remote or a transport,
\* and the enlistment `git init` created is removed.
nested_cache_fails_and_cleans_up ==
    nested =>
        /\ ended_before_fetch
        /\ pc \in {"exit", "died"} => enlistment # "created"

\* C9 as the code has it: with the cache root in dir, cmd_clone fails before
\* any fetch and before it configures a remote or a transport; it removes
\* the enlistment `git init` created only on the way to die() at line 821,
\* and leaves it when chdir(dir) failed (it returns an error) or when the
\* removal failed (it dies at line 818).
nested_cache_fails_before_fetch ==
    nested =>
        /\ ended_before_fetch
        /\ enlistment = "removed" => pc = "died"
        /\ pc = "exit" => enlistment \in {"absent", "exists", "created"}
        /\ (pc = "exit" /\ enlistment = "created") => res = -1

\* cmd_clone died of a cache root in dir and removed the enlistment.
nested_cache_removed ==
    /\ nested
    /\ pc = "died"
    /\ enlistment = "removed"
    /\ clone.inside = 0

(***************************************************************************)
(* Properties of set_scalar_config() and set_recommended_config().  `last` *)
(* is the last call; nothing writes the configuration after it.            *)
(***************************************************************************)

\* C5: for every entry of config[] the last set_recommended_config() applied,
\* whatever the configuration it found: git_config_set_gently() was called
\* for the entry if and only if (reconfigure and overwrite_on_reconfigure) or
\* the key had no value, and a write that succeeded left the entry's value;
\* otherwise the key kept what it had, and the entry's result was 0: the loop
\* went on to the next entry.
set_scalar_config_writes ==
    \A j \in 1..Len(config) :
        (last.n > 0 /\ j <= last.i) =>
            LET entry == config[j]
                unset == git_config_get_string(last.before, entry.key) = NULL
            IN  /\ entry.key \in last.wrote
                      <=> ((last.reconfigure /\ entry.overwrite_on_reconfigure) \/ unset)
                /\ (entry.key \in last.wrote /\ j < last.i) =>
                      cfg[entry.key] = <<entry.value>>
                /\ entry.key \notin last.wrote =>
                      cfg[entry.key] = last.before[entry.key] /\ j < last.i

\* `scalar register` ran through the table of an enlistment where am.keepCR
\* had a value and status.aheadBehind had none.
first_time_kept_and_wrote ==
    /\ last.n > 0
    /\ ~last.reconfigure
    /\ last.i > Len(config)
    /\ last.before["am.keepCR"] = <<"false">>
    /\ cfg["am.keepCR"] = <<"false">>
    /\ "status.aheadBehind" \in last.wrote

\* C6: a set_recommended_config(0) that returns 0 after another
\* set_recommended_config(0) that returned 0 leaves every key as it found
\* it, whatever the configuration the first one found.
first_time_idempotent ==
    (/\ last.prev.n > 0
     /\ ~last.prev.reconfigure /\ last.prev.res = 0
     /\ ~last.reconfigure /\ last.res = 0)
        => cfg = last.before

\* C7: after a set_recommended_config(1) that returned 0, whatever the
\* configuration it found, every entry of config[] with
\* overwrite_on_reconfigure has its value, and every entry without it that
\* had a value has the value it had.
reconfigure_forces_required ==
    (last.n > 0 /\ last.reconfigure /\ last.res = 0) =>
        \A j \in 1..Len(config) :
            IF config[j].overwrite_on_reconfigure
            THEN git_config_get_string(cfg, config[j].key) = config[j].value
            ELSE last.before[config[j].key] # <<>> =>
                    cfg[config[j].key] = last.before[config[j].key]

\* `scalar reconfigure` succeeded where am.keepCR was false and
\* status.aheadBehind was true.
reconfigured_over_user_values ==
    /\ pc = "exit"
    /\ cmd = "reconfigure"
    /\ res = 0
    /\ last.before["am.keepCR"] = <<"false">>
    /\ last.before["status.aheadBehind"] = <<"true">>
    /\ cfg["am.keepCR"] = <<"true">>
    /\ cfg["status.aheadBehind"] = <<"true">>

(***************************************************************************)
(* Properties of run_git().                                                *)
(***************************************************************************)

\* What holds of every run_git() call, in progress or returned: it started
\* at most git_retries children, which is 3 unless cmd_diagnose made it 1;
\* when it returns it has started at least one, it returns the last child's
\* exit, and that exit is 0 or the children are used up.
run_git_counts ==
    /\ git_retries = IF cmd = "diagnose" THEN 1 ELSE DefaultGitRetries
    /\ rg.children <= git_retries
    /\ run_git_returns =>
          /\ rg.children >= 1
          /\ rg.res = rg.exit
          /\ rg.res = 0 \/ rg.children = git_retries

\* A child that is started after another one of the same call runs the same
\* argv, and the one before it did not exit with 0.
run_git_again ==
    (rg.children > 0 /\ rg'.children = rg.children + 1) =>
        rg'.argv = rg.argv /\ rg.exit # 0

\* C8: run_git() runs its command at least once and at most git_retries times
\* (3 by default), again with the same argv only after a non-zero exit and
\* not after an exit of 0, returns the exit of the last run, and every call
\* returns.
run_git_retries ==
    /\ []run_git_counts
    /\ [][run_git_again]_vars
    /\ (rg.argv # <<>>) ~> run_git_returns

\* A call that ran `git help` three times and returned the last failure.
run_git_gave_up ==
    /\ pc = "exit"
    /\ cmd = "help"
    /\ rg.children = DefaultGitRetries
    /\ rg.res # 0
    /\ res = rg.exit

(***************************************************************************)
(* Properties of cmd_reconfigure --all.                                    *)
(***************************************************************************)

\* The records of `started` from the first one to the k-th, as the loop
\* leaves them in `visited` whatever their outcome.
in_registration_order ==
    /\ Len(fleet.visited) <= Len(fleet.started)
    /\ \A k \in 1..Len(fleet.visited) :
          /\ fleet.visited[k].i = k - 1
          /\ fleet.visited[k].dir = fleet.started[k]

\* cmd_reconfigure --all returned after a turn of the loop for every record.
reconfigured_all ==
    /\ pc = "exit"
    /\ Len(fleet.visited) = Len(fleet.started)

\* C10: cmd_reconfigure --all takes the scalar.repo records that were there
\* when it started one after the other, in the order of registration and
\* each one once, whatever the outcome of the records before (chdir failed,
\* a stale record was or was not removed, no repository was found,
\* set_recommended_config or `maintenance start` failed); it returns only
\* after the last record, and it does return.
reconfigure_all_visits_every_record ==
    /\ [](fleet.all => in_registration_order)
    /\ []((fleet.all /\ pc = "exit") => reconfigured_all)
    /\ (fleet.all ~> reconfigured_all)

\* cmd_reconfigure --all returned after a first record that failed and a
\* second one that did not.
reconfigured_after_failed_record ==
    /\ fleet.all
    /\ reconfigured_all
    /\ Len(fleet.visited) = 2
    /\ fleet.visited[1].succeeded = 0
    /\ fleet.visited[2].succeeded = 1
    /\ res = -1

\* A removal of remove_deleted_enlistment() reported an error to it.
removal_failed == \E k \in 1..Len(fleet.turn.unsets) : fleet.turn.unsets[k].res < 0

\* The record of this turn failed: chdir(dir) failed and not because dir is
\* missing, the stale record's removal failed, no repository was discovered
\* in dir, or set_recommended_config(1) failed.
record_failed ==
    \/ fleet.turn.chdir = "EACCES"
    \/ fleet.turn.chdir = "ENOENT" /\ removal_failed
    \/ fleet.turn.reason \notin {"", "GIT_DIR_DISCOVERED"}
    \/ fleet.turn.config # <<>> /\ fleet.turn.config[1] # 0

\* cmd_reconfigure --all returned and a record's turn ended with succeeded = 0.
some_record_not_succeeded ==
    \E k \in 1..Len(fleet.visited) : fleet.visited[k].succeeded = 0

\* C11: cmd_reconfigure --all returns a failure if and only if a record
\* failed: at loop_end `succeeded` is 0 exactly for a record that failed
\* (chdir failed with another errno than ENOENT, the stale record's removal
\* failed, the repository was not discovered, set_recommended_config(1)
\* failed), and the result is not 0 exactly when some record's `succeeded`
\* was 0.
reconfigure_all_fails_iff_record_failed ==
    /\ pc = "reconfigure_loop_end" => (fleet.succeeded = 0 <=> record_failed)
    /\ (fleet.all /\ pc = "exit") => (res # 0 <=> some_record_not_succeeded)

\* The turn of a record whose directory is missing.
stale_record == fleet.turn.chdir = "ENOENT"

\* C12: for a record whose directory is missing, cmd_reconfigure --all asks
\* git to unset scalar.repo and then maintenance.repo for the record's path,
\* whatever the first removal returned; it calls neither
\* set_recommended_config() nor toggle_maintenance() for it; the record's
\* `succeeded` is 0 only if a removal returned an error; and
\* cmd_reconfigure --all returns a failure only if some record's `succeeded`
\* was 0, so that with records that succeed before and after the missing one
\* the result is 0 unless a removal failed.
stale_record_is_removed ==
    /\ stale_record =>
          /\ pc \in {"reconfigure_unset_scalar", "reconfigure_unset_maintenance",
                     "reconfigure_loop_end"}
          /\ fleet.dir = fleet.started[fleet.i + 1]
          /\ fleet.turn.reason = ""
          /\ fleet.turn.config = <<>> /\ fleet.turn.maintenance = <<>>
    /\ (stale_record /\ pc = "reconfigure_unset_scalar") =>
          /\ rg.argv = ConfigUnset("scalar.repo", fleet.dir)
          /\ fleet.turn.unsets = <<>>
    /\ (stale_record /\ pc = "reconfigure_unset_maintenance") =>
          /\ rg.argv = ConfigUnset("maintenance.repo", fleet.dir)
          /\ Len(fleet.turn.unsets) = 1
    /\ (stale_record /\ pc = "reconfigure_loop_end") =>
          /\ Len(fleet.turn.unsets) = 2
          /\ fleet.turn.unsets[1].key = "scalar.repo"
          /\ fleet.turn.unsets[2].key = "maintenance.repo"
          /\ fleet.succeeded = 0 <=> removal_failed
    /\ (fleet.all /\ pc = "exit" /\ res # 0) => some_record_not_succeeded

\* cmd_reconfigure --all returned 0 for three records of which the second
\* one was missing: its two values are removed, and set_recommended_config()
\* was called for the first and for the third.
reconfigured_around_stale_record ==
    /\ fleet.all
    /\ pc = "exit"
    /\ res = 0
    /\ fleet.started = <<Dir(1), Dir(2), Dir(3)>>
    /\ Len(fleet.visited) = 3
    /\ scalar_repo = <<Dir(1), Dir(3)>>
    /\ Dir(2) \notin maintenance_repo
    /\ last.n = 2

\* C13: cmd_reconfigure --all calls set_recommended_config(1) and starts
\* `maintenance start` for a record only when
\* discover_git_directory_reason() answered GIT_DIR_DISCOVERED for its
\* directory.
configured_only_when_discovered ==
    (\/ pc \in {"reconfigure_config", "reconfigure_maintenance"}
     \/ fleet.turn.config # <<>>
     \/ fleet.turn.maintenance # <<>>)
        => fleet.turn.reason = "GIT_DIR_DISCOVERED"

\* C14: whenever cmd_clone returns a failure, no scalar.repo value of the
\* global configuration names the enlistment that was being cloned, also
\* when register_dir() failed after add_or_remove_enlistment(1) added it.
failed_clone_leaves_no_record ==
    (cmd = "clone" /\ pc = "exit" /\ res # 0) => Count(scalar_repo, Worktree) = 0

\* `scalar register` returned 0.
registered_ok == pc = "exit" /\ cmd = "register" /\ res = 0

\* C15 as the specification states it: after register_dir() returned 0,
\* every entry of config[] with overwrite_on_reconfigure has its value,
\* whatever value the key had before.
register_forces_required ==
    registered_ok =>
        \A j \in 1..Len(config) :
            config[j].overwrite_on_reconfigure =>
                git_config_get_string(cfg, config[j].key) = config[j].value

\* C15: register_dir() calls set_recommended_config(0): after it returned 0,
\* every entry of config[] whose key had a value before, with
\* overwrite_on_reconfigure or without, has that value still, and every
\* entry whose key had none has the entry's value.
register_keeps_values ==
    registered_ok =>
        \A j \in 1..Len(config) :
            IF last.before[config[j].key] # <<>>
            THEN cfg[config[j].key] = last.before[config[j].key]
            ELSE git_config_get_string(cfg, config[j].key) = config[j].value

\* `scalar register` returned 0 where am.keepCR, an entry with
\* overwrite_on_reconfigure, was false: it is false still.
registered_over_user_value ==
    /\ registered_ok
    /\ last.before["am.keepCR"] = <<"false">>
    /\ cfg["am.keepCR"] = <<"false">>

(***************************************************************************)
(* Properties of remote_default_branch().                                  *)
(***************************************************************************)

\* The lines of the remote's answer that name HEAD's symbolic ref.
head_lines ==
    {k \in 1..Len(clone.head.remote.out) :
        /\ Head(clone.head.remote.out[k]) = "ref: "
        /\ clone.head.remote.out[k][Len(clone.head.remote.out[k])] = "\tHEAD"}

\* The first of them names a branch.
head_is_branch ==
    /\ head_lines # {}
    /\ \E k \in head_lines :
          /\ \A j \in head_lines : k <= j
          /\ clone.head.remote.out[k][2] = "refs/heads/"

\* `git ls-remote` gave a branch name.
remote_yields_branch == clone.head.remote.status = 0 /\ head_is_branch

\* C16 as the specification states it: remote_default_branch() returns NULL
\* only if both `git ls-remote` and `git symbolic-ref` gave no branch, and
\* whenever `git ls-remote` gave no branch the warning is given,
\* `git symbolic-ref` is run and, if it succeeds, its answer is the branch.
default_branch_fails_only_if_both_fail ==
    clone.head.asked =>
        /\ clone.branch = NULL =>
              ~remote_yields_branch /\ clone.head.local.status # 0
        /\ ~remote_yields_branch =>
              /\ clone.head.warned
              /\ clone.head.local.status = 0 => clone.branch = "main"

\* C16: remote_default_branch() returns the branch of the first
\* "ref: <p>\tHEAD" line of a successful `git ls-remote` when <p> is under
\* refs/heads/, and NULL, without warning and without running
\* `git symbolic-ref`, when it is not; when `git ls-remote` failed or wrote
\* no such line, it warns and returns the trimmed answer of
\* `git symbolic-ref`, or NULL if that failed.
default_branch_from_remote_or_local ==
    clone.head.asked =>
        IF clone.head.remote.status = 0 /\ head_lines # {}
        THEN /\ ~clone.head.warned
             /\ clone.branch = IF head_is_branch THEN "main" ELSE NULL
        ELSE /\ clone.head.warned
             /\ clone.branch = IF clone.head.local.status = 0 THEN "main" ELSE NULL

\* `git ls-remote` succeeded and wrote HEAD's object and then HEAD as a
\* symbolic ref to a tag: remote_default_branch() returned NULL although
\* `git symbolic-ref` would have answered.
remote_head_is_not_a_branch ==
    /\ clone.head.asked
    /\ pc = "exit"
    /\ res = -1
    /\ clone.head.remote.status = 0
    /\ Len(clone.head.remote.out) = 2
    /\ clone.head.remote.out[1] = <<"8a3f", "\tHEAD">>
    /\ clone.head.remote.out[2][2] = "refs/tags/"
    /\ clone.head.local.status = 0
    /\ ~clone.head.warned

(***************************************************************************)
(* Properties of the callbacks of iterate_json().                          *)
(***************************************************************************)

\* The entries of the document whose GlobalDefault is true, and those whose
\* Url is a string.
defaults == {k \in 1..Len(helper.out) : helper.out[k].GlobalDefault = "JSON_TRUE"}
with_url ==
    {k \in 1..Len(helper.out) :
        helper.out[k].Url # <<>> /\ helper.out[k].Url[1] = "JSON_STRING"}

\* The token of entry k's GlobalDefault is the one after the document's two
\* and the tokens of the entries before k, of entry k itself and of its Url.
tokens_up_to_default(k) ==
    2 + Cardinality({j \in 1..k : helper.out[j].Url # <<>>}) + 2 * k

\* C17: for a document with exactly one entry whose GlobalDefault is true,
\* the k-th (index k - 1), get_cache_server_index() stores k - 1 and ends
\* the iteration at that token, and get_cache_server_url() stores the Url of
\* that entry when it is a string; list_cache_server_urls() prints one line
\* "#<index>: <url>" for each entry whose Url is a string, and no other
\* line, by ascending index.
default_is_selected_and_urls_are_listed ==
    /\ (cmd = "clone" /\ helper.asked /\ Cardinality(defaults) = 1) =>
          \A k \in defaults :
              /\ helper.l = k - 1
              /\ helper.seen = tokens_up_to_default(k)
              /\ k \in with_url => helper.url = helper.out[k].Url[2]
    /\ (cmd = "cache-server" /\ helper.asked) =>
          /\ Len(helper.printed) = Cardinality(with_url)
          /\ \A k \in with_url :
                \E j \in 1..Len(helper.printed) :
                    /\ j = Cardinality({i \in with_url : i <= k})
                    /\ helper.printed[j] =
                          "#" \o ToString(k - 1) \o ": " \o helper.out[k].Url[2]

\* The second of two entries is the default and the two Urls differ: its
\* index and its Url were stored.
second_entry_is_default ==
    /\ cmd = "clone"
    /\ helper.asked
    /\ Len(helper.out) = 2
    /\ defaults = {2}
    /\ with_url = {1, 2}
    /\ helper.out[1].Url # helper.out[2].Url
    /\ helper.l = 1
    /\ helper.url = helper.out[2].Url[2]

(***************************************************************************)
(* Properties of get_cache_key().                                          *)
(***************************************************************************)

\* gvfs-helper was asked for vsts/info, answered, and the answer has a
\* string at .repository.id.
identity_known ==
    /\ ~clone.key.skip
    /\ clone.url[1] = "https" \/ (clone.allow_http /\ clone.url[1] = "http")
    /\ clone.key.info.pipe = 0
    /\ clone.key.info.parse = 0
    /\ clone.key.info.id # <<>>
    /\ clone.key.info.id[1] = "JSON_STRING"

\* C18: get_cache_key() always returns a key: "id_" and the .repository.id
\* when gvfs-helper was asked, answered and gave one; in every other case
\* "url_" and the hash of the URL in lower case, which is the same for the
\* URLs that differ in case only.
cache_key_is_id_or_url_hash ==
    clone.key.asked =>
        /\ clone.key.cache_key # NULL
        /\ pc # "exit"
        /\ IF identity_known
           THEN clone.key.cache_key = "id_" \o clone.key.info.id[2]
           ELSE /\ clone.url[1] \in {"https", "HTTPS"} =>
                      clone.key.cache_key = "url_sha1(https://example.com/repo)"
                /\ clone.url[1] = "http" =>
                      clone.key.cache_key = "url_sha1(http://example.com/repo)"

\* The key of https://Example.com/Repo, of which gvfs-helper knew no id, is
\* the one of https://example.com/repo.
fallback_key_ignores_case ==
    /\ clone.key.asked
    /\ clone.url = <<"https", "Example.com/Repo">>
    /\ ~clone.key.skip
    /\ clone.key.info.pipe = 0
    /\ clone.key.info.parse = 0
    /\ clone.key.info.id = <<>>
    /\ clone.key.cache_key = "url_sha1(https://example.com/repo)"

(***************************************************************************)
(* Properties of the writes to the global configuration.                   *)
(***************************************************************************)

\* run_git() is running a command that writes to the global configuration:
\* `config --global --add` or `--unset`, or `maintenance start` or
\* `unregister`.
global_write ==
    /\ rg.argv # <<>>
    /\ \/ rg.argv[1] = "maintenance"
       \/ rg.argv[1] = "config" /\ rg.argv[3] \in {"--add", "--unset"}

\* C19: whenever a command that writes to the global configuration is run,
\* core.configWriteLockTimeoutMS has a value or was pushed to the
\* children's configuration.
timeout_configured_before_write ==
    global_write =>
        \/ pushed
        \/ git_config_get_string(cfg, "core.configWriteLockTimeoutMS") # NULL

\* C20: when toggle_maintenance(1) returns in register_dir(), whatever it
\* returned, register_dir() goes on to start_fsmonitor_daemon() if the
\* daemon is supported and not listening, and returns 0 otherwise; and when
\* the daemon's start returns, register_dir() returns -1 if it failed and 0
\* if not.
maintenance_failure_is_a_warning ==
    [][/\ (pc = "register_maintenance" /\ pc' # pc) =>
             IF have_fsmonitor_support /\ fsmonitor # "listening"
             THEN pc' = "register_fsmonitor" /\ rg'.argv = DaemonStart
             ELSE \/ pc' = "exit" /\ res' = 0
                  \/ cmd = "run" /\ pc' = "run_all"
       /\ (pc = "register_fsmonitor" /\ pc' # pc /\ cmd = "register") =>
             /\ pc' = "exit"
             /\ res' = IF rg.res # 0 THEN -1 ELSE 0]_vars

\* `scalar register` returned 0 with the daemon started and the enlistment
\* not in maintenance.repo: `git maintenance start` had failed.
registered_without_maintenance ==
    /\ pc = "exit"
    /\ cmd = "register"
    /\ res = 0
    /\ Count(scalar_repo, Worktree) = 1
    /\ Worktree \notin maintenance_repo
    /\ fsmonitor = "listening"

(***************************************************************************)
(* Properties of a set_recommended_config() whose write fails.             *)
(***************************************************************************)

\* The last set_recommended_config() made the write that the store failed:
\* of an entry of config[], of the migration, of the fsmonitor entry or of
\* log.excludeDecoration.
write_failed ==
    \/ last.fail \in TableKeys /\ last.fail \in last.wrote
    \/ /\ last.fail = "migrate:core.fsmonitor"
       /\ last.before["core.usebuiltinfsmonitor"] # <<>>
       /\ last.before["core.fsmonitor"] = <<>>
    \/ /\ last.fail = "migrate:core.usebuiltinfsmonitor"
       /\ last.before["core.usebuiltinfsmonitor"] # <<>>
    \/ /\ last.fail = "fsmonitor:core.fsmonitor"
       /\ have_fsmonitor_support
       /\ last.before["core.usebuiltinfsmonitor"] = <<>>
       /\ last.before["core.fsmonitor"] = <<>>
    \/ /\ last.fail = "log.excludeDecoration"
       /\ last.before["log.excludeDecoration"] = <<>>

\* The entries of config[] the failed write comes after: all of them for
\* the fsmonitor entry and log.excludeDecoration, none for the migration.
entries_before_failure ==
    IF last.fail \in TableKeys THEN {j \in 1..Len(config) : j < last.i}
    ELSE IF last.fail \in {"fsmonitor:core.fsmonitor", "log.excludeDecoration"}
    THEN 1..Len(config)
    ELSE {}

\* C21: when a write of set_recommended_config() fails, it returns an
\* error; no entry of config[] from the failing one on is written, and
\* every entry written before it has the entry's value.
failed_write_aborts_reconcile ==
    (last.n > 0 /\ write_failed) =>
        /\ last.res # 0
        /\ \A j \in 1..Len(config) :
              IF j \in entries_before_failure
              THEN IF config[j].key \in last.wrote
                   THEN cfg[config[j].key] = <<config[j].value>>
                   ELSE cfg[config[j].key] = last.before[config[j].key]
              ELSE cfg[config[j].key] = last.before[config[j].key]

\* C22: after a set_recommended_config() that returned 0, in either mode,
\* core.usebuiltinfsmonitor has no value; core.fsmonitor has the value
\* core.usebuiltinfsmonitor had when it had none itself, and the value it had
\* when it had one.
deprecated_setting_is_migrated ==
    (last.n > 0 /\ last.res = 0) =>
        /\ cfg["core.usebuiltinfsmonitor"] = <<>>
        /\ (/\ last.before["core.usebuiltinfsmonitor"] # <<>>
            /\ last.before["core.fsmonitor"] = <<>>)
              => cfg["core.fsmonitor"] =
                    <<git_config_get_string(last.before, "core.usebuiltinfsmonitor")>>
        /\ last.before["core.fsmonitor"] # <<>>
              => cfg["core.fsmonitor"] = last.before["core.fsmonitor"]

(***************************************************************************)
(* Properties of register_dir(), unregister_dir() and delete_enlistment(). *)
(***************************************************************************)

\* run_git() is called with args, or starts a child of args, in this step.
issued(args) ==
    /\ rg'.argv = args
    /\ \/ rg.argv # args
       \/ rg'.attempts = 0 /\ rg.attempts # 0
       \/ rg'.children = rg.children + 1

\* C23: `fsmonitor--daemon start` is run only where the daemon is supported
\* and not listening, and `fsmonitor--daemon stop` only where it is
\* supported and listening.
daemon_command_only_when_needed ==
    [][/\ issued(DaemonStart) => fsmonitor = "stopped"
       /\ issued(DaemonStop) => fsmonitor = "listening"]_vars

\* `scalar delete` stopped the daemon that was listening.
daemon_stopped_by_delete ==
    /\ cmd = "delete"
    /\ rg.argv = DaemonStop
    /\ rg.children > 0
    /\ fsmonitor = "stopped"

\* C24: cmd_diagnose runs `git diagnose` once: no second child is started,
\* whatever the first one exits with, and the call returns after the first.
diagnose_runs_once ==
    /\ [](cmd = "diagnose" =>
            /\ rg.children <= 1
            /\ run_git_returns => rg.children = 1 /\ rg.res = rg.exit)
    /\ (cmd = "diagnose") ~> (run_git_returns /\ rg.children = 1)

\* `scalar diagnose` returned the failure of its only child.
diagnose_failed_once ==
    /\ pc = "exit"
    /\ cmd = "diagnose"
    /\ rg.children = 1
    /\ rg.exit # 0
    /\ res = rg.exit

(***************************************************************************)
(* Properties of cmd_clone's order.                                        *)
(***************************************************************************)

\* register_dir() is running.
registering ==
    pc \in {"register_get", "register_add", "register_config",
            "register_maintenance", "register_fsmonitor"}

\* cmd_clone's set_recommended_config(0), the first call, returned 0; the
\* second call is register_dir()'s.
baseline_applied ==
    \/ last.n = 1 /\ last.res = 0
    \/ last.n = 2 /\ last.prev.res = 0 /\ registering
    \/ last.n = 2 /\ last.prev.res = 0 /\ pc = "exit"

\* What cmd_clone's steps leave when they succeed: `git init` the directory,
\* lines 834-846 the remote, lines 851-878 the transport's settings, line
\* 884 the baseline, lines 887-907 a fetch that was run, lines 909-913 the
\* branch, and the checkout its result.
clone_steps_succeeded ==
    /\ enlistment = "created"
    /\ cfg["remote.origin.url"] # <<>>
    /\ cfg["remote.origin.fetch"] # <<>>
    /\ cfg["core.useGVFSHelper"] = <<IF clone.gvfs_protocol THEN "true" ELSE "false">>
    /\ baseline_applied
    /\ clone.fetches >= 1
    /\ cfg["branch.main.merge"] # <<>>
    /\ rg.argv = Checkout
    /\ rg.res = 0

\* Each step of cmd_clone has the ones before it behind it.
clone_steps_in_order ==
    /\ cfg["remote.origin.url"] # <<>> => enlistment = "created"
    /\ cfg["core.useGVFSHelper"] # <<>> => cfg["remote.origin.fetch"] # <<>>
    /\ last.n > 0 => cfg["core.useGVFSHelper"] # <<>>
    /\ (clone.fetches > 0 \/ rg.argv = Fetch) => baseline_applied
    /\ rg.argv = Checkout => clone.fetches > 0 /\ cfg["branch.main.merge"] # <<>>

enlistment_is_recorded_once ==
    /\ [](~hist.lied => Count(scalar_repo, Worktree) <= 1)
    /\ [][/\ (pc = "register_get" /\ run_git_returns /\ rg.res = 0)
              => ~issued(ConfigAdd(Worktree))
          /\ (pc = "unregister_get" /\ run_git_returns /\ rg.res # 0)
              => ~issued(ConfigUnset("scalar.repo", Worktree))]_vars

\* The second builtin, `scalar register`, found the record and added none.
registered_twice_recorded_once ==
    /\ runs.n = 1
    /\ cmd = "register"
    /\ pc = "register_config"
    /\ ~hist.lied
    /\ scalar_repo = <<Worktree>>

\* C27: for a document without an entry whose GlobalDefault is true,
\* get_cache_server_index() stores nothing and l is 0; supports_gvfs_protocol()
\* hands back the Url of .CacheServers[0] when there is one, a string, and
\* NULL when there is not, and returns 1.
no_default_selects_first_entry ==
    (cmd = "clone" /\ helper.asked /\ defaults = {}) =>
        /\ helper.l = 0
        /\ helper.seen = Len(json_tokens(helper.out))
        /\ helper.url = IF 1 \in with_url THEN helper.out[1].Url[2] ELSE NULL
        /\ helper.ret = 1

\* Two entries, none the default: the first one's Url was handed back.
first_of_two_without_default ==
    /\ cmd = "clone"
    /\ helper.asked
    /\ Len(helper.out) = 2
    /\ defaults = {}
    /\ with_url = {1, 2}
    /\ helper.out[1].Url # helper.out[2].Url
    /\ helper.url = helper.out[1].Url[2]
    /\ helper.ret = 1

\* The place of a call in delete_enlistment()'s order.
rank(op) ==
    CASE op = "toggle_maintenance" -> 1
      [] op = "add_or_remove_enlistment" -> 2
      [] op = "unregister_dir" -> 3
      [] op = "chdir" -> 4
      [] op = "stop_fsmonitor_daemon" -> 5
      [] op = "remove_dir_recursively" -> 6

\* C28: cmd_delete calls remove_dir_recursively() only when cwd was not
\* inside the enlistment, toggle_maintenance(0) and
\* add_or_remove_enlistment(0) returned 0 and the daemon, where it was
\* listening, was stopped; the directory is there unless that call removed
\* it; and unregister_dir() comes before the daemon's stop, which comes
\* before the removal.
delete_removes_last ==
    cmd = "delete" =>
        /\ called("remove_dir_recursively") =>
              /\ hist.cwd_inside < 0
              /\ called("toggle_maintenance") /\ returned("toggle_maintenance") = 0
              /\ called("add_or_remove_enlistment")
              /\ returned("add_or_remove_enlistment") = 0
              /\ called("unregister_dir") /\ returned("unregister_dir") = 0
              /\ called("stop_fsmonitor_daemon") => returned("stop_fsmonitor_daemon") = 0
              /\ fsmonitor # "listening"
        /\ enlistment = "removed" =>
              /\ called("remove_dir_recursively")
              /\ returned("remove_dir_recursively") = 0
        /\ \A j, k \in 1..Len(hist.steps) :
              j < k => rank(hist.steps[j].op) < rank(hist.steps[k].op)
        /\ rg.argv = DaemonStop => called("unregister_dir")

\* `scalar delete` unregistered the enlistment, stopped the daemon and
\* removed the directory.
deleted_after_daemon_stop ==
    /\ cmd = "delete"
    /\ pc = "exit"
    /\ res = 0
    /\ enlistment = "removed"
    /\ called("stop_fsmonitor_daemon")
    /\ scalar_repo = <<>>

(***************************************************************************)
(* Properties of cmd_clone's fetches.                                      *)
(***************************************************************************)

\* The children of `git fetch` cmd_clone has started: those of the call
\* that is running, after the git_retries of the first call when it is the
\* second.
fetch_children ==
    IF pc = "clone_fetch" THEN rg.children
    ELSE IF pc = "clone_fetch2" THEN git_retries + rg.children
    ELSE 0

\* The second run_git("fetch", ...) is called in this step.
fallback_begins == clone.fetches = 1 /\ clone'.fetches = 2

\* C29: cmd_clone calls run_git("fetch", ...) a second time only after the
\* first call, of a partial clone, has started git_retries children and the
\* last one failed; each call starts at most git_retries children, so a
\* clone starts at most 2 * git_retries of them (6), and with the GVFS
\* protocol at most git_retries.
fetches_are_bounded ==
    /\ [](cmd = "clone" =>
            /\ git_retries = DefaultGitRetries
            /\ clone.fetches <= 2
            /\ rg.argv = Fetch => rg.children <= git_retries
            /\ rg.argv = Fetch <=> pc \in {"clone_fetch", "clone_fetch2"}
            /\ fetch_children <= 2 * git_retries
            /\ clone.gvfs_protocol =>
                  clone.fetches <= 1 /\ fetch_children <= git_retries)
    /\ [][(cmd = "clone" /\ fallback_begins) =>
            /\ pc = "clone_fetch" /\ pc' = "clone_fetch2"
            /\ ~clone.gvfs_protocol
            /\ rg.argv = Fetch
            /\ rg.children = git_retries
            /\ rg.res # 0
            /\ rg'.children = 0]_vars

\* Both calls of a partial clone failed on every attempt: six children.
six_fetches_failed ==
    /\ cmd = "clone"
    /\ pc = "clone_fetch2"
    /\ run_git_returns
    /\ rg.res # 0
    /\ fetch_children = 2 * DefaultGitRetries

====
